---- MODULE Spec2Model ----
\* Verification model of the outline editor (EditorCanvas.tsx): the Paper.js
\* project that holds the raster and the 'outlines' group, the snapshot
\* history behind undo/redo, the pointer tool, and the asynchronous
\* generation / render pipeline that feeds it.
EXTENDS Integers, Sequences, FiniteSets, TLC

\* ------------------------------------------------------------------ bounds
MaxSteps == 7
MaxRequests == 2
MaxPending == 1
MaxCoord == 2
MaxOutside == 1
MaxHitIndex == 2
MaxEditSteps == 7
MaxExportSteps == 5
MaxFieldCells == 6
MaxBlurRadius == 2

\* ------------------------------------------------------- program constants
\* exportJSON serialises numbers with 5 fractional digits: coordinates are
\* kept here in half-quanta, so one serialisation quantum is 2 units.
Prec == 2
\* now - lastClickTime < 300
DoubleClickMs == 300
\* Date.now() at mount time is an epoch value far above the window.
MountTime == 1000
DefaultBlurRadius == 15
DefaultThreshold == 10
DefaultSimplification == 2
\* raster.opacity = appState.showOriginal ? 1 : 0.4, in percent.
OpacityShown == 100
OpacityDimmed == 40

VARIABLES
    appState,           \* props.appState (imageUrl, imageWidth, imageHeight, blurRadius, threshold, simplification, style, showOriginal)
    processedPathData,  \* useState: rings of the last finished generation, or null
    isProcessing,       \* useState
    history,            \* historyRef.current
    historyIndex,       \* historyIndexRef.current
    notified,           \* last (canUndo, canRedo) held by App
    layer,              \* scope.project.activeLayer.children, bottom to top
    requests,           \* process() calls awaiting loadImage
    issued,             \* number of process() calls started so far
    pendingLoads,       \* rasters whose onLoad has not fired yet
    segment,            \* tool closure: the grabbed paper.Segment or null
    isDragging,         \* tool closure
    lastClickTime,      \* tool closure
    mouse,              \* whether the pointer button is held
    op,                 \* the handler that ran last, and what it decided
    steps,              \* handler invocations since the mount
    run,                \* edits and undos counted since history last held one entry
    image,              \* the decoded image handed to the blur: width, height, alpha bytes row by row
    call,               \* the last export, image-processing or mockup call and what it produced
    mockupState,        \* App useState: the mockup composition (layers, instances, selection, layout)
    dragState,          \* MockupCanvas useState: id of the instance being dragged, 0 for null
    newIds              \* number of ids newId() has returned

editorVars == <<appState, processedPathData, isProcessing, history, historyIndex,
                notified, layer, requests, issued, pendingLoads, segment,
                isDragging, lastClickTime, mouse, op, run, steps>>

mockupVars == <<mockupState, dragState, newIds>>

vars == <<editorVars, image, call, mockupVars>>

\* ------------------------------------------------------------ value helpers
Min(a, b) == IF a < b THEN a ELSE b

Max(a, b) == IF a > b THEN a ELSE b

Point(x, y) == <<x, y>>

ZeroHandle == <<0, 0>>

\* paper.Segment: anchor plus two relative handles.
Segment(pt, hIn, hOut) == [point |-> pt, handleIn |-> hIn, handleOut |-> hOut]

NullSegment == [isNull |-> TRUE, gid |-> 0, path |-> 0, index |-> 0]

SegmentRefFirst(g, p, i) == [isNull |-> FALSE, gid |-> g, path |-> p, index |-> 1]

\* A reference to a paper.Segment: the group that owns it, its path, its position.
SegmentRef(g, p, i) == [isNull |-> FALSE, gid |-> g, path |-> p, index |-> i]

NullData == [isNull |-> TRUE, rings |-> <<>>, request |-> 0]

\* Style attributes of appState that applyStyles copies onto a path.
StyleChoices ==
    { [strokeColor |-> "#ef4444", strokeWidth |-> 3, showPoints |-> TRUE],
      [strokeColor |-> "#00ff00", strokeWidth |-> 4, showPoints |-> FALSE] }

DefaultStyle == [strokeColor |-> "#ef4444", strokeWidth |-> 3, showPoints |-> TRUE]

SimplificationChoices == {0, DefaultSimplification}

Deltas == {<<1, 0>>, <<0 - 1, 0>>}

\* Milliseconds between one pointer press and the next; the first press of a
\* session falls DoubleClickMs after the mount.
ClickGaps == {DoubleClickMs - 1, DoubleClickMs}

\* (blurRadius, threshold) pairs the sliders are moved to.
ParamChoices == {<<20, DefaultThreshold>>, <<DefaultBlurRadius, 100>>}

\* img.width and img.height of the decoded upload, in pixels: odd uploads are
\* 2 x 2, even ones 3 x 2; the rings below touch the edges of both.
ImageWidth(img) == IF img % 2 = 0 THEN 3 ELSE 2

ImageHeight(img) == 2

\* ------------------------------------------------- generation (imageProcessing)
\* Rings as d3-contour returns them: GeoJSON rings, first point repeated last.
RingA == << <<2, 0>>, <<2, 2>>, <<0, 2>>, <<2, 0>> >>

RingB == << <<0, 0>>, <<2, 0>>, <<2, 2>>, <<0, 0>> >>

\* generateOutlineCoordinates(img, blurRadius, threshold): a table standing for
\* the blur + contour pipeline; what matters to the editor is that different
\* requests give different ring lists, one of them with two rings and one
\* with no ring at all (threshold above every field value).
generateOutlineCoordinates(img, blurRadius, threshold) ==
    IF threshold > 50 THEN <<>>
    ELSE IF img % 2 = 0 THEN <<RingB, RingA>>
    ELSE IF blurRadius = DefaultBlurRadius THEN <<RingA>>
    ELSE <<RingB>>

\* --------------------------------------------------------- paper.js geometry
\* path.simplify(tolerance): PathFitter drops repeated points and refits the
\* rest with curves; points closer than the tolerance to the last kept one
\* disappear and the kept nodes get non-zero handles.
Dist(p, q) ==
    (IF p[1] > q[1] THEN p[1] - q[1] ELSE q[1] - p[1])
    + (IF p[2] > q[2] THEN p[2] - q[2] ELSE q[2] - p[2])

RECURSIVE KeepFar(_, _, _)
KeepFar(pts, kept, tol) ==
    IF pts = <<>> THEN kept
    ELSE IF kept # <<>> /\ Dist(kept[Len(kept)], Head(pts)) < tol
         THEN KeepFar(Tail(pts), kept, tol)
         ELSE KeepFar(Tail(pts), Append(kept, Head(pts)), tol)

simplify(segments, tolerance) ==
    LET pts == [i \in 1..Len(segments) |-> segments[i].point]
        far == KeepFar(pts, <<>>, tolerance)
        open == IF Len(far) > 1 /\ far[Len(far)] = far[1]
                THEN SubSeq(far, 1, Len(far) - 1) ELSE far
    IN [i \in 1..Len(open) |-> Segment(open[i], <<0 - Prec, 0>>, <<Prec, 0>>)]

NewPathAlwaysSimplifies(ring, simplification, style) ==
    [segments |-> simplify([i \in 1..Len(ring) |-> Segment(Point(ring[i][1], ring[i][2]), ZeroHandle, ZeroHandle)],
                           simplification),
     closed |-> TRUE,
     style |-> style]

\* new paper.Path({segments: ring.map(...), closed: true}) + style + simplify.
NewPath(ring, simplification, style) ==
    LET raw == [i \in 1..Len(ring) |-> Segment(Point(ring[i][1], ring[i][2]), ZeroHandle, ZeroHandle)]
    IN [segments |-> IF simplification > 0 THEN simplify(raw, simplification) ELSE raw,
        closed |-> TRUE,
        style |-> style]

Raster(id) == [type |-> "Raster", name |-> "mainImage", id |-> id, children |-> <<>>, opacity |-> OpacityShown]

Group(id, children) == [type |-> "Group", name |-> "outlines", id |-> id, children |-> children, opacity |-> OpacityShown]

\* path.curves.length (_countCurves): a closed path has one curve per segment.
CountCurves(path) ==
    IF ~path.closed /\ Len(path.segments) > 0 THEN Len(path.segments) - 1
    ELSE Len(path.segments)

\* ------------------------------------------------------- project item lookup
\* project.getItem({name}): first match in child order; 0 when there is none.
getItem(lyr, name) ==
    IF \E i \in 1..Len(lyr) : lyr[i].name = name
    THEN CHOOSE i \in 1..Len(lyr) : lyr[i].name = name /\ \A j \in 1..(i - 1) : lyr[j].name # name
    ELSE 0

RemoveAtLast(s, i) == SubSeq(s, 1, Len(s) - 1)

RemoveAtAll(s, i) == <<>>

\* segment.remove() / item.remove(): the element at position i leaves the list.
RemoveAt(s, i) == SubSeq(s, 1, i - 1) \o SubSeq(s, i + 1, Len(s))

InsertAtEnd(s, i, e) == Append(s, e)

\* path.insert(index, point) / insertAbove: e becomes the element at position i.
InsertAt(s, i, e) == SubSeq(s, 1, i - 1) \o <<e>> \o SubSeq(s, i, Len(s))

\* Object identity: the smallest identifier no live object carries.
FreshId(used) ==
    CHOOSE i \in 1..(Cardinality(used) + 1) : i \notin used /\ \A j \in 1..(i - 1) : j \in used

GroupIds(lyr) == {lyr[i].id : i \in {j \in 1..Len(lyr) : lyr[j].type = "Group"}}

\* Index in the layer of the group a segment reference points into; 0 when the
\* segment's path has been removed from the project.
OwnerIndex(lyr, seg) ==
    IF ~seg.isNull /\ \E i \in 1..Len(lyr) : lyr[i].type = "Group" /\ lyr[i].id = seg.gid
    THEN CHOOSE i \in 1..Len(lyr) : lyr[i].type = "Group" /\ lyr[i].id = seg.gid
    ELSE 0

\* ------------------------------------------------ snapshots (exportJSON / importJSON)
\* Formatter.number: Math.round(val * 10^precision) / 10^precision.
FormatNumber(x) == ((2 * x + Prec) \div (2 * Prec)) * Prec

FormatPoint(p) == <<FormatNumber(p[1]), FormatNumber(p[2])>>

\* JSON.stringify(pathsGroup.exportJSON({asString: false})): the group with its
\* paths, their segments at export precision, and their style attributes.
exportJSON(group) ==
    [name |-> group.name,
     children |-> [i \in 1..Len(group.children) |->
        [segments |-> [j \in 1..Len(group.children[i].segments) |->
                         Segment(FormatPoint(group.children[i].segments[j].point),
                                 FormatPoint(group.children[i].segments[j].handleIn),
                                 FormatPoint(group.children[i].segments[j].handleOut))],
         closed |-> group.children[i].closed,
         style |-> group.children[i].style]]]

importJSONDropsHandles(json, id) ==
    [type |-> "Group", name |-> json.name, id |-> id, opacity |-> OpacityShown,
     children |-> [i \in 1..Len(json.children) |->
        [json.children[i] EXCEPT !.segments =
            [j \in 1..Len(json.children[i].segments) |->
                Segment(json.children[i].segments[j].point, ZeroHandle, ZeroHandle)]]]]

\* project.importJSON(jsonString): a new item carrying what the string holds.
importJSON(json, id) ==
    [type |-> "Group", name |-> json.name, id |-> id, children |-> json.children, opacity |-> OpacityShown]

applyStylesKeeps(group, style) == group

applyStylesFlattens(group, style) ==
    [group EXCEPT !.children = [i \in 1..Len(group.children) |->
        [group.children[i] EXCEPT !.style = style,
                                  !.segments = [j \in 1..Len(@) |-> Segment(@[j].point, ZeroHandle, ZeroHandle)]]]]

\* applyStyles(item): every path of the group takes the current appState style.
applyStyles(group, style) ==
    [group EXCEPT !.children = [i \in 1..Len(group.children) |-> [group.children[i] EXCEPT !.style = style]]]

\* raster.opacity for a showOriginal flag.
RasterOpacity(showOriginal) == IF showOriginal THEN OpacityShown ELSE OpacityDimmed

\* Effect 4 ("Update Styles") on the layer: the opacity of the 'mainImage'
\* item and applyStyles on the 'outlines' item, each if there is one.
UpdateStyles(lyr, a) ==
    [k \in 1..Len(lyr) |->
        IF k = getItem(lyr, "mainImage") THEN [lyr[k] EXCEPT !.opacity = RasterOpacity(a.showOriginal)]
        ELSE IF k = getItem(lyr, "outlines") THEN applyStyles(lyr[k], a.style)
        ELSE lyr[k]]

\* The geometry of a list of paths: node positions and handles, no style.
Geometry(children) ==
    [i \in 1..Len(children) |-> [segments |-> children[i].segments, closed |-> children[i].closed]]

\* The document's paths: the children of the item getItem finds.
DocPaths(lyr) == IF getItem(lyr, "outlines") = 0 THEN <<>> ELSE lyr[getItem(lyr, "outlines")].children

\* ------------------------------------------------------------ history store
\* saveHistory, lines 43-45: "If we are in the middle of the stack, truncate future".
TruncateKeepsFuture(hist, idx) == hist

TruncateDropsCurrent(hist, idx) == SubSeq(hist, 1, idx)

Truncate(hist, idx) ==
    IF idx < Len(hist) - 1 THEN SubSeq(hist, 1, idx + 1) ELSE hist

saveHistoryNoAdvance(lyr, hist, idx) ==
    LET g == getItem(lyr, "outlines")
    IN IF g = 0
       THEN [history |-> hist, historyIndex |-> idx, pushed |-> FALSE]
       ELSE [history |-> Append(Truncate(hist, idx), exportJSON(lyr[g])),
             historyIndex |-> idx,
             pushed |-> TRUE]

\* saveHistory(scope): nothing without an 'outlines' item; otherwise truncate,
\* push the serialised group, advance the index.
saveHistory(lyr, hist, idx) ==
    LET g == getItem(lyr, "outlines")
    IN IF g = 0
       THEN [history |-> hist, historyIndex |-> idx, pushed |-> FALSE]
       ELSE [history |-> Append(Truncate(hist, idx), exportJSON(lyr[g])),
             historyIndex |-> idx + 1,
             pushed |-> TRUE]

notifyHistoryChangeOffByOne(hist, idx) == [canUndo |-> idx > 0, canRedo |-> idx < Len(hist)]

\* notifyHistoryChange: what onHistoryChange is called with.
notifyHistoryChange(hist, idx) == [canUndo |-> idx > 0, canRedo |-> idx < Len(hist) - 1]

\* Identifiers of groups that are still referenced by something.
LiveGroupIds(lyr, seg) == GroupIds(lyr) \cup (IF seg.isNull THEN {} ELSE {seg.gid})

restoreHistoryKeepsOld(lyr, json, style, seg) ==
    Append(lyr, applyStyles([importJSON(json, FreshId(LiveGroupIds(lyr, seg))) EXCEPT !.name = "outlines"], style))

\* restoreHistory(jsonString): remove the old group, import the snapshot as a
\* new item, name it, place it above the raster, apply the current styles.
restoreHistory(lyr, json, style, seg) ==
    LET old == getItem(lyr, "outlines")
        without == IF old # 0 THEN RemoveAt(lyr, old) ELSE lyr
        newItem == applyStyles([importJSON(json, FreshId(LiveGroupIds(without, seg))) EXCEPT !.name = "outlines"], style)
        raster == getItem(without, "mainImage")
    IN IF raster # 0 THEN InsertAt(without, raster + 1, newItem)
       ELSE Append(without, newItem)

\* ------------------------------------------------------- observation helpers
\* op: which handler ran last (name), whether it pushed a snapshot and how many
\* entries that push dropped, whether it took effect, the hit it classified,
\* for undo/redo the index before the call, for a redo whether it directly
\* follows an undo that took effect, for a raster load the rings it drew and
\* the effect run that created the raster, for a pointer press the hit's
\* (layer index, path index, segment or curve index), for a release the hit
\* type of the press when the release directly follows it, for a pointer
\* move its event.delta and the sum of the deltas applied to the grabbed node
\* since the press (net).
Op(name, pushed, effective, hit, dbl) ==
    [name |-> name, pushed |-> pushed, effective |-> effective, hit |-> hit,
     isDoubleClick |-> dbl, before |-> 0 - 1, rings |-> <<>>,
     dropped |-> IF pushed THEN Len(history) - Len(Truncate(history, historyIndex)) ELSE 0,
     afterUndo |-> FALSE, cause |-> "none", target |-> <<0, 0, 0>>, afterPress |-> "no",
     delta |-> <<0, 0>>, net |-> op.net]

NoSnapshot == [name |-> "none", children |-> <<>>]

NoRun == [active |-> FALSE, base |-> NoSnapshot, edits |-> 0, undos |-> 0]

\* run after a handler that pushed (or not) a snapshot as an edit commit.
RunAfterEdit(pushed, hist, idx) ==
    IF ~pushed THEN run
    ELSE IF Len(hist) = 1 /\ idx = 0
         THEN [active |-> TRUE, base |-> hist[1], edits |-> 0, undos |-> 0]
    ELSE IF run.active /\ run.undos = 0 THEN [run EXCEPT !.edits = @ + 1]
    ELSE NoRun

\* run after a generation step's push: a baseline when it is the only entry.
RunAfterGeneration(pushed, hist, idx) ==
    IF pushed /\ Len(hist) = 1 /\ idx = 0
    THEN [active |-> TRUE, base |-> hist[1], edits |-> 0, undos |-> 0]
    ELSE NoRun

\* ------------------------------------------------------------ initial state
\* EditorCanvas is mounted once App holds an imageUrl: effect 1 built the
\* scope, effect 2 started the first process() and reset the history, effect 3
\* returned early (processedPathData is null).
EditorMounted(img) ==
    /\ appState = [imageUrl |-> img, imageWidth |-> ImageWidth(img), imageHeight |-> ImageHeight(img),
                   blurRadius |-> DefaultBlurRadius, threshold |-> DefaultThreshold,
                   simplification |-> DefaultSimplification, style |-> DefaultStyle,
                   showOriginal |-> TRUE]
    /\ processedPathData = NullData
    /\ isProcessing = TRUE
    /\ history = <<>>
    /\ historyIndex = 0 - 1
    /\ notified = [canUndo |-> FALSE, canRedo |-> FALSE]
    /\ layer = <<>>
    /\ requests = {[id |-> 1, imageUrl |-> img, blurRadius |-> DefaultBlurRadius, threshold |-> DefaultThreshold]}
    /\ issued = 1
    /\ pendingLoads = {}
    /\ segment = NullSegment
    /\ isDragging = FALSE
    /\ lastClickTime = 0
    /\ mouse = "up"
    /\ op = [name |-> "mount", pushed |-> FALSE, effective |-> FALSE, hit |-> "none",
             isDoubleClick |-> FALSE, before |-> 0 - 1, rings |-> <<>>, dropped |-> 0,
             afterUndo |-> FALSE, cause |-> "none", target |-> <<0, 0, 0>>, afterPress |-> "no",
     delta |-> <<0, 0>>, net |-> <<0, 0>>]
    /\ run = NoRun
    /\ steps = 0

\* lastLayoutMessage: null.
NoMessage == [isNull |-> TRUE, placedCount |-> 0, notPlacedCount |-> 0, allowRotate90 |-> FALSE]

\* The mockup composition App starts with: lengths in px, ids as numbers,
\* selectedInstanceId 0 for null.
DEFAULT_MOCKUP_STATE ==
    [boundaryWidth |-> 900, boundaryHeight |-> 600, minGap |-> 10, allowRotate90 |-> FALSE,
     layers |-> <<>>, instances |-> <<>>, selectedInstanceId |-> 0,
     notPlacedInstanceIds |-> <<>>, lastLayoutMessage |-> NoMessage]

\* App and MockupCanvas after construction: the default composition, nothing
\* dragged, no id issued.
MockupMounted ==
    /\ mockupState = DEFAULT_MOCKUP_STATE
    /\ dragState = 0
    /\ newIds = 0

\* No export, image-processing or mockup call has been observed.
NoCall == [name |-> "none"]

\* No image handed to the blur yet.
NoImage == [width |-> 0, height |-> 0, data |-> <<>>]

Init ==
    /\ EditorMounted(1)
    /\ image = NoImage
    /\ call = NoCall
    /\ MockupMounted

\* ---------------------------------------------------------------- effects
\* Effect 2 ("Generate Data") for the appState a: start process(), which
\* captures a's imageUrl, blurRadius and threshold, then reset the history.
GenerateData(a) ==
    /\ issued < MaxRequests
    /\ requests' = requests \cup {[id |-> issued + 1, imageUrl |-> a.imageUrl,
                                   blurRadius |-> a.blurRadius, threshold |-> a.threshold]}
    /\ issued' = issued + 1
    /\ isProcessing' = TRUE
    /\ history' = <<>>
    /\ historyIndex' = 0 - 1
    /\ notified' = notifyHistoryChange(<<>>, 0 - 1)

\* Effect 3 ("Render Geometry") for the appState a and path data d: clear the
\* layer, create the raster and leave its onLoad pending; the callback keeps
\* the path data and the appState of this render; cause names the state
\* change that re-ran the effect.
RenderGeometry(a, d, cause) ==
    IF d.isNull
    THEN UNCHANGED <<layer, pendingLoads>>
    ELSE LET rid == FreshId({l.rid : l \in pendingLoads})
         IN /\ Cardinality(pendingLoads) < MaxPending
            /\ layer' = <<Raster(rid)>>
            /\ pendingLoads' = pendingLoads \cup
                   {[rid |-> rid, rings |-> d.rings, simplification |-> a.simplification, style |-> a.style,
                     showOriginal |-> a.showOriginal, cause |-> cause]}

\* ------------------------------------------------- parameter / image changes
\* Controls.handleChange('blurRadius' | 'threshold'): effect 2 only.
ChangeParams(b, t) ==
    /\ <<b, t>> # <<appState.blurRadius, appState.threshold>>
    /\ appState' = [appState EXCEPT !.blurRadius = b, !.threshold = t]
    /\ GenerateData(appState')
    /\ op' = Op("changeParams", FALSE, TRUE, "none", FALSE)
    /\ run' = NoRun
    /\ UNCHANGED <<processedPathData, layer, pendingLoads, segment, isDragging, lastClickTime, mouse>>

\* App.handleUpload: a new object URL, default blur and threshold; effects 2
\* and 3 both depend on imageUrl and run in that order.
UploadImage ==
    /\ appState' = [appState EXCEPT !.imageUrl = @ + 1,
                                    !.imageWidth = ImageWidth(appState.imageUrl + 1),
                                    !.imageHeight = ImageHeight(appState.imageUrl + 1),
                                    !.blurRadius = DefaultBlurRadius, !.threshold = DefaultThreshold]
    /\ GenerateData(appState')
    /\ RenderGeometry(appState', processedPathData, "uploadImage")
    /\ op' = Op("uploadImage", FALSE, TRUE, "none", FALSE)
    /\ run' = NoRun
    /\ UNCHANGED <<processedPathData, segment, isDragging, lastClickTime, mouse>>

\* Controls.handleChange('simplification'): effect 3 only.
ChangeSimplification(s) ==
    /\ appState.simplification = DefaultSimplification
    /\ s # appState.simplification
    /\ appState' = [appState EXCEPT !.simplification = s]
    /\ RenderGeometry(appState', processedPathData, "changeSimplification")
    /\ op' = Op("changeSimplification", FALSE, ~processedPathData.isNull, "none", FALSE)
    /\ run' = NoRun
    /\ UNCHANGED <<processedPathData, isProcessing, history, historyIndex, notified, requests,
                   issued, segment, isDragging, lastClickTime, mouse>>

\* Controls.handleChange of a stroke / fill / showPoints attribute: effect 4.
ChangeStyle(st) ==
    /\ appState.style = DefaultStyle
    /\ st # appState.style
    /\ appState' = [appState EXCEPT !.style = st]
    /\ layer' = UpdateStyles(layer, appState')
    /\ op' = Op("changeStyle", FALSE, TRUE, "none", FALSE)
    /\ UNCHANGED <<processedPathData, isProcessing, history, historyIndex, notified, requests,
                   issued, pendingLoads, segment, isDragging, lastClickTime, mouse, run>>

\* Controls.handleChange('showOriginal'): effect 4.
ToggleShowOriginal ==
    /\ appState.showOriginal
    /\ appState' = [appState EXCEPT !.showOriginal = ~@]
    /\ layer' = UpdateStyles(layer, appState')
    /\ op' = Op("toggleShowOriginal", FALSE, TRUE, "none", FALSE)
    /\ UNCHANGED <<processedPathData, isProcessing, history, historyIndex, notified, requests,
                   issued, pendingLoads, segment, isDragging, lastClickTime, mouse, run>>

\* ------------------------------------------------------ asynchronous results
\* process() resumes after loadImage resolved: setProcessedPathData(coords),
\* setIsProcessing(false); the new path data re-runs effect 3.
ProcessDone(r) ==
    /\ r \in requests
    /\ requests' = requests \ {r}
    /\ processedPathData' = [isNull |-> FALSE, rings |-> generateOutlineCoordinates(r.imageUrl, r.blurRadius, r.threshold),
                             request |-> r.id]
    /\ isProcessing' = FALSE
    /\ RenderGeometry(appState, processedPathData', "processDone")
    /\ op' = Op("processDone", FALSE, TRUE, "none", FALSE)
    /\ run' = NoRun
    /\ UNCHANGED <<appState, history, historyIndex, notified, issued, segment, isDragging,
                   lastClickTime, mouse>>

ProcessFailPublishesEmpty(r) ==
    /\ r \in requests
    /\ requests' = requests \ {r}
    /\ processedPathData' = [isNull |-> FALSE, rings |-> <<>>, request |-> r.id]
    /\ isProcessing' = FALSE
    /\ RenderGeometry(appState, processedPathData', "processDone")
    /\ op' = Op("processFail", FALSE, FALSE, "none", FALSE)
    /\ UNCHANGED <<appState, history, historyIndex, notified, issued, segment, isDragging,
                   lastClickTime, mouse, run>>

\* process() when loadImage rejects: the catch logs, finally clears the flag.
ProcessFail(r) ==
    /\ r \in requests
    /\ requests' = requests \ {r}
    /\ isProcessing' = FALSE
    /\ op' = Op("processFail", FALSE, FALSE, "none", FALSE)
    /\ UNCHANGED <<appState, processedPathData, history, historyIndex, notified, layer, issued,
                   pendingLoads, segment, isDragging, lastClickTime, mouse, run>>

\* raster.onLoad of one pending raster: sendToBack (only while the raster still
\* has a parent), build the 'outlines' group from the captured rings and
\* appState, add it to the active layer, then saveHistory.
RasterLoad(l) ==
    /\ l \in pendingLoads
    /\ pendingLoads' = pendingLoads \ {l}
    /\ LET at == IF \E i \in 1..Len(layer) : layer[i].type = "Raster" /\ layer[i].id = l.rid
                 THEN CHOOSE i \in 1..Len(layer) : layer[i].type = "Raster" /\ layer[i].id = l.rid
                 ELSE 0
           back == IF at = 0 THEN layer
                   ELSE <<[layer[at] EXCEPT !.opacity = RasterOpacity(l.showOriginal)]>> \o RemoveAt(layer, at)
           group == Group(FreshId(LiveGroupIds(layer, segment)),
                          [i \in 1..Len(l.rings) |-> NewPath(l.rings[i], l.simplification, l.style)])
           saved == saveHistory(Append(back, group), history, historyIndex)
       IN /\ layer' = Append(back, group)
          /\ history' = saved.history
          /\ historyIndex' = saved.historyIndex
          /\ notified' = notifyHistoryChange(saved.history, saved.historyIndex)
          /\ op' = [Op("rasterLoad", saved.pushed, at # 0, "none", FALSE) EXCEPT !.rings = l.rings, !.cause = l.cause]
          /\ run' = RunAfterGeneration(saved.pushed, saved.history, saved.historyIndex)
    /\ UNCHANGED <<appState, processedPathData, isProcessing, requests, issued, segment,
                   isDragging, lastClickTime, mouse>>

\* ------------------------------------------------------------- undo / redo
entryAtStale(hist, idx) == hist[IF idx + 2 <= Len(hist) THEN idx + 2 ELSE idx + 1]

entryAtPrevious(hist, idx) == hist[Max(1, idx)]

\* historyRef.current[historyIndexRef.current]
entryAt(hist, idx) == hist[idx + 1]

\* undo(): only when historyIndex > 0.
Undo ==
    /\ IF historyIndex > 0
       THEN /\ historyIndex' = historyIndex - 1
            /\ layer' = restoreHistory(layer, entryAt(history, historyIndex'), appState.style, segment)
            /\ notified' = notifyHistoryChange(history, historyIndex')
            /\ run' = IF run.active THEN [run EXCEPT !.undos = @ + 1] ELSE NoRun
       ELSE UNCHANGED <<historyIndex, layer, notified, run>>
    /\ op' = [Op("undo", FALSE, historyIndex > 0, "none", FALSE) EXCEPT !.before = historyIndex]
    /\ UNCHANGED <<appState, processedPathData, isProcessing, history, requests, issued,
                   pendingLoads, segment, isDragging, lastClickTime, mouse>>

\* redo(): only when historyIndex < history.length - 1.
Redo ==
    /\ IF historyIndex < Len(history) - 1
       THEN /\ historyIndex' = historyIndex + 1
            /\ layer' = restoreHistory(layer, entryAt(history, historyIndex'), appState.style, segment)
            /\ notified' = notifyHistoryChange(history, historyIndex')
            /\ run' = NoRun
       ELSE UNCHANGED <<historyIndex, layer, notified, run>>
    /\ op' = [Op("redo", FALSE, historyIndex < Len(history) - 1, "none", FALSE)
                EXCEPT !.before = historyIndex, !.afterUndo = (op.name = "undo" /\ op.effective)]
    /\ UNCHANGED <<appState, processedPathData, isProcessing, history, requests, issued,
                   pendingLoads, segment, isDragging, lastClickTime, mouse>>

\* ------------------------------------------------------------ pointer tool
\* Grid points lying on the straight stroke between two anchors, the anchors
\* themselves excluded (those would be segment hits).
StrokePoints(a, b) ==
    {p \in (Min(a[1], b[1])..Max(a[1], b[1])) \X (Min(a[2], b[2])..Max(a[2], b[2])) :
        /\ p # a
        /\ p # b
        /\ (b[1] - a[1]) * (p[2] - a[2]) = (b[2] - a[2]) * (p[1] - a[1])}

\* hitTest results. A segment hit carries the 1-based position of the segment;
\* a stroke hit carries location.index, the 0-based index of the curve, and
\* event.point.
NoHit == [type |-> "none", item |-> 0, path |-> 0, index |-> 0, point |-> <<0, 0>>]

SegmentHit(g, p, i) == [type |-> "segment", item |-> g, path |-> p, index |-> i, point |-> <<0, 0>>]

StrokeHit(g, p, c, pt) == [type |-> "stroke", item |-> g, path |-> p, index |-> c, point |-> pt]

GroupIndexes == {k \in 1..Len(layer) : layer[k].type = "Group"}

\* Second anchor of the curve that starts at segment i of a closed path.
NextIndex(path, i) == IF i = Len(path.segments) THEN 1 ELSE i + 1

IsDoubleClickInclusive(now, last) == now - last <= DoubleClickMs

\* const isDoubleClick = now - lastClickTime < 300
IsDoubleClick(now, last) == now - last < DoubleClickMs

\* Date.now() of the previous onMouseDown, or of the mount before the first.
PrevNow == IF lastClickTime = 0 THEN MountTime ELSE lastClickTime

onMouseDownSavesOnMiss(gap, hit) ==
    LET now == PrevNow + gap
        isDoubleClick == IsDoubleClick(now, lastClickTime)
        g == hit.item
        p == hit.path
        removed == [layer EXCEPT ![g].children[p].segments = RemoveAt(@, hit.index)]
        inserted == [layer EXCEPT ![g].children[p].segments =
                        InsertAt(@, hit.index + 2, Segment(hit.point, ZeroHandle, ZeroHandle))]
        edited == IF hit.type = "segment" THEN removed ELSE inserted
        saved == saveHistory(edited, history, historyIndex)
        missed == saveHistory(layer, history, historyIndex)
    IN /\ mouse = "up"
       /\ mouse' = "down"
       /\ lastClickTime' = now
       /\ isDragging' = FALSE
       /\ IF hit.type = "none"
          THEN /\ segment' = NullSegment
               /\ op' = Op("mouseDown", missed.pushed, FALSE, "none", isDoubleClick)
               /\ history' = missed.history
               /\ historyIndex' = missed.historyIndex
               /\ UNCHANGED <<layer, notified, run>>
          ELSE IF hit.type = "segment" /\ ~isDoubleClick
          THEN /\ segment' = SegmentRef(layer[g].id, p, hit.index)
               /\ op' = [Op("mouseDown", FALSE, TRUE, "segment", isDoubleClick) EXCEPT !.target = <<g, p, hit.index>>]
               /\ UNCHANGED <<layer, history, historyIndex, notified, run>>
          ELSE /\ segment' = IF hit.type = "segment" THEN NullSegment
                             ELSE SegmentRef(layer[g].id, p, hit.index + 2)
               /\ layer' = edited
               /\ history' = saved.history
               /\ historyIndex' = saved.historyIndex
               /\ notified' = notifyHistoryChange(saved.history, saved.historyIndex)
               /\ op' = [Op("mouseDown", saved.pushed, TRUE, hit.type, isDoubleClick) EXCEPT !.target = <<g, p, hit.index>>]
               /\ run' = RunAfterEdit(saved.pushed, saved.history, saved.historyIndex)
       /\ UNCHANGED <<appState, processedPathData, isProcessing, requests, issued, pendingLoads>>

\* Variant of tool.onMouseDown in which a double-click returns after the
\* double-click check whatever was hit, so a stroke gets no node.
onMouseDownDoubleClickSkipsStroke(gap, hit) ==
    LET now == PrevNow + gap
        isDoubleClick == IsDoubleClick(now, lastClickTime)
        g == hit.item
        p == hit.path
        removed == [layer EXCEPT ![g].children[p].segments = RemoveAt(@, hit.index)]
        inserted == [layer EXCEPT ![g].children[p].segments =
                        InsertAt(@, hit.index + 2, Segment(hit.point, ZeroHandle, ZeroHandle))]
        edited == IF hit.type = "segment" THEN removed ELSE inserted
        saved == saveHistory(edited, history, historyIndex)
    IN /\ mouse = "up"
       /\ mouse' = "down"
       /\ lastClickTime' = now
       /\ isDragging' = FALSE
       /\ IF hit.type = "none"
          THEN /\ segment' = NullSegment
               /\ op' = Op("mouseDown", FALSE, FALSE, "none", isDoubleClick)
               /\ UNCHANGED <<layer, history, historyIndex, notified, run>>
          ELSE IF hit.type = "stroke" /\ isDoubleClick
          THEN /\ segment' = NullSegment
               /\ op' = [Op("mouseDown", FALSE, FALSE, "stroke", isDoubleClick) EXCEPT !.target = <<g, p, hit.index>>]
               /\ UNCHANGED <<layer, history, historyIndex, notified, run>>
          ELSE IF hit.type = "segment" /\ ~isDoubleClick
          THEN /\ segment' = SegmentRef(layer[g].id, p, hit.index)
               /\ op' = [Op("mouseDown", FALSE, TRUE, "segment", isDoubleClick) EXCEPT !.target = <<g, p, hit.index>>]
               /\ UNCHANGED <<layer, history, historyIndex, notified, run>>
          ELSE /\ segment' = IF hit.type = "segment" THEN NullSegment
                             ELSE SegmentRef(layer[g].id, p, hit.index + 2)
               /\ layer' = edited
               /\ history' = saved.history
               /\ historyIndex' = saved.historyIndex
               /\ notified' = notifyHistoryChange(saved.history, saved.historyIndex)
               /\ op' = [Op("mouseDown", saved.pushed, TRUE, hit.type, isDoubleClick) EXCEPT !.target = <<g, p, hit.index>>]
               /\ run' = RunAfterEdit(saved.pushed, saved.history, saved.historyIndex)
       /\ UNCHANGED <<appState, processedPathData, isProcessing, requests, issued, pendingLoads>>

\* tool.onMouseDown for a pointer press `gap` ms after the previous one whose
\* hitTest result is `hit`.
onMouseDown(gap, hit) ==
    LET now == PrevNow + gap
        isDoubleClick == IsDoubleClick(now, lastClickTime)
        g == hit.item
        p == hit.path
        removed == [layer EXCEPT ![g].children[p].segments = RemoveAt(@, hit.index)]
        inserted == [layer EXCEPT ![g].children[p].segments =
                        InsertAt(@, hit.index + 2, Segment(hit.point, ZeroHandle, ZeroHandle))]
        edited == IF hit.type = "segment" THEN removed ELSE inserted
        saved == saveHistory(edited, history, historyIndex)
    IN /\ mouse = "up"
       /\ mouse' = "down"
       /\ lastClickTime' = now
       /\ isDragging' = FALSE
       /\ IF hit.type = "none"
          THEN /\ segment' = NullSegment
               /\ op' = Op("mouseDown", FALSE, FALSE, "none", isDoubleClick)
               /\ UNCHANGED <<layer, history, historyIndex, notified, run>>
          ELSE IF hit.type = "segment" /\ ~isDoubleClick
          THEN /\ segment' = SegmentRef(layer[g].id, p, hit.index)
               /\ op' = [Op("mouseDown", FALSE, TRUE, "segment", isDoubleClick) EXCEPT !.target = <<g, p, hit.index>>]
               /\ UNCHANGED <<layer, history, historyIndex, notified, run>>
          ELSE /\ segment' = IF hit.type = "segment" THEN NullSegment
                             ELSE SegmentRef(layer[g].id, p, hit.index + 2)
               /\ layer' = edited
               /\ history' = saved.history
               /\ historyIndex' = saved.historyIndex
               /\ notified' = notifyHistoryChange(saved.history, saved.historyIndex)
               /\ op' = [Op("mouseDown", saved.pushed, TRUE, hit.type, isDoubleClick) EXCEPT !.target = <<g, p, hit.index>>]
               /\ run' = RunAfterEdit(saved.pushed, saved.history, saved.historyIndex)
       /\ UNCHANGED <<appState, processedPathData, isProcessing, requests, issued, pendingLoads>>

\* Every pointer press the project can receive in the current state.
MouseDown ==
    \E gap \in (IF lastClickTime = 0 THEN {DoubleClickMs} ELSE ClickGaps) :
        \/ onMouseDown(gap, NoHit)
        \/ \E g \in GroupIndexes : \E p \in 1..Len(layer[g].children) :
             \E i \in 1..Min(MaxHitIndex, Len(layer[g].children[p].segments)) :
                onMouseDown(gap, SegmentHit(g, p, i))
        \/ \E g \in GroupIndexes : \E p \in 1..Len(layer[g].children) :
             \E c \in 1..Min(MaxHitIndex, CountCurves(layer[g].children[p])) :
                \E pt \in StrokePoints(layer[g].children[p].segments[c].point,
                                       layer[g].children[p].segments[NextIndex(layer[g].children[p], c)].point) :
                    onMouseDown(gap, StrokeHit(g, p, c - 1, pt))

TranslateFlipped(pt, d) == <<pt[1] - d[1], pt[2] - d[2]>>

\* segment.point.x += event.delta.x; segment.point.y += event.delta.y
Translate(pt, d) == <<pt[1] + d[1], pt[2] + d[2]>>

onMouseDragAliased(d) ==
    LET owner == OwnerIndex(layer, segment)
        old == layer[owner].children[segment.path].segments[segment.index].point
        new == Translate(old, d)
    IN /\ mouse = "down"
       /\ IF segment.isNull
          THEN UNCHANGED <<layer, isDragging>>
          ELSE /\ isDragging' = TRUE
               /\ IF owner = 0
                  THEN UNCHANGED layer
                  ELSE /\ new[1] \in (0 - MaxOutside)..(MaxCoord + MaxOutside)
                       /\ new[2] \in 0..MaxCoord
                       /\ layer' = [layer EXCEPT ![owner].children[segment.path].segments[segment.index].point = new]
       /\ op' = [Op("mouseDrag", FALSE, ~segment.isNull, "none", FALSE)
                    EXCEPT !.delta = d, !.net = IF segment.isNull THEN op.net ELSE Translate(op.net, d)]
       /\ history' = IF segment.isNull \/ owner = 0 \/ owner # getItem(layer, "outlines") \/ historyIndex < 0
                     THEN history
                     ELSE [history EXCEPT ![historyIndex + 1].children =
                              [i \in 1..Len(layer'[owner].children) |->
                                  [segments |-> layer'[owner].children[i].segments,
                                   closed |-> layer'[owner].children[i].closed,
                                   style |-> layer'[owner].children[i].style]]]
       /\ UNCHANGED <<appState, processedPathData, isProcessing, historyIndex, notified,
                      requests, issued, pendingLoads, segment, lastClickTime, mouse, run>>

\* tool.onMouseDrag with event.delta = d.
onMouseDrag(d) ==
    LET owner == OwnerIndex(layer, segment)
        old == layer[owner].children[segment.path].segments[segment.index].point
        new == Translate(old, d)
    IN /\ mouse = "down"
       /\ IF segment.isNull
          THEN UNCHANGED <<layer, isDragging>>
          ELSE /\ isDragging' = TRUE
               /\ IF owner = 0
                  THEN UNCHANGED layer
                  ELSE /\ new[1] \in (0 - MaxOutside)..(MaxCoord + MaxOutside)
                       /\ new[2] \in 0..MaxCoord
                       /\ layer' = [layer EXCEPT ![owner].children[segment.path].segments[segment.index].point = new]
       /\ op' = [Op("mouseDrag", FALSE, ~segment.isNull, "none", FALSE)
                    EXCEPT !.delta = d, !.net = IF segment.isNull THEN op.net ELSE Translate(op.net, d)]
       /\ UNCHANGED <<appState, processedPathData, isProcessing, history, historyIndex, notified,
                      requests, issued, pendingLoads, segment, lastClickTime, mouse, run>>

\* tool.onMouseUp.
onMouseUp ==
    LET saved == IF isDragging THEN saveHistory(layer, history, historyIndex)
                 ELSE [history |-> history, historyIndex |-> historyIndex, pushed |-> FALSE]
    IN /\ mouse = "down"
       /\ mouse' = "up"
       /\ history' = saved.history
       /\ historyIndex' = saved.historyIndex
       /\ notified' = IF isDragging /\ saved.pushed THEN notifyHistoryChange(saved.history, saved.historyIndex)
                      ELSE notified
       /\ isDragging' = FALSE
       /\ segment' = NullSegment
       /\ op' = [Op("mouseUp", saved.pushed, isDragging, "none", FALSE)
                    EXCEPT !.afterPress = IF op.name = "mouseDown" THEN op.hit ELSE "no",
                           !.net = <<0, 0>>]
       /\ run' = RunAfterEdit(saved.pushed, saved.history, saved.historyIndex)
       /\ UNCHANGED <<appState, processedPathData, isProcessing, layer, requests, issued,
                      pendingLoads, lastClickTime>>

\* ------------------------------------------------------------ specification
\* One handler, callback or effect run.
Handler ==
    \/ \E bt \in ParamChoices : ChangeParams(bt[1], bt[2])
    \/ UploadImage
    \/ \E s \in SimplificationChoices : ChangeSimplification(s)
    \/ \E st \in StyleChoices : ChangeStyle(st)
    \/ ToggleShowOriginal
    \/ \E r \in requests : ProcessDone(r)
    \/ \E r \in requests : ProcessFail(r)
    \/ \E l \in pendingLoads : RasterLoad(l)
    \/ Undo
    \/ Redo
    \/ MouseDown
    \/ \E d \in Deltas : onMouseDrag(d)
    \/ onMouseUp

\* Behaviours of at most MaxSteps handler runs.
Next ==
    /\ steps < MaxSteps
    /\ steps' = steps + 1
    /\ Handler
    /\ UNCHANGED <<image, call, mockupVars>>

Spec == Init /\ [][Next]_vars

\* ------------------------------------------------------- editing sessions
\* The editor right after the first generation of image img was committed:
\* process() resolved, effect 3 rendered, raster.onLoad installed the paths
\* and pushed the baseline; no pointer press yet.
EditInit ==
    \E img \in {1, 2} :
        LET rings == generateOutlineCoordinates(img, DefaultBlurRadius, DefaultThreshold)
            group == Group(1, [i \in 1..Len(rings) |-> NewPath(rings[i], DefaultSimplification, DefaultStyle)])
        IN /\ appState = [imageUrl |-> img, imageWidth |-> ImageWidth(img), imageHeight |-> ImageHeight(img),
                          blurRadius |-> DefaultBlurRadius, threshold |-> DefaultThreshold,
                          simplification |-> DefaultSimplification, style |-> DefaultStyle,
                          showOriginal |-> TRUE]
           /\ processedPathData = [isNull |-> FALSE, rings |-> rings, request |-> 1]
           /\ isProcessing = FALSE
           /\ history = <<exportJSON(group)>>
           /\ historyIndex = 0
           /\ notified = notifyHistoryChange(history, historyIndex)
           /\ layer = <<Raster(1), group>>
           /\ requests = {}
           /\ issued = 1
           /\ pendingLoads = {}
           /\ segment = NullSegment
           /\ isDragging = FALSE
           /\ lastClickTime = 0
           /\ mouse = "up"
           /\ op = [name |-> "rasterLoad", pushed |-> TRUE, effective |-> TRUE, hit |-> "none",
                    isDoubleClick |-> FALSE, before |-> 0 - 1, rings |-> rings, dropped |-> 0,
                    afterUndo |-> FALSE, cause |-> "processDone", target |-> <<0, 0, 0>>,
                    afterPress |-> "no", delta |-> <<0, 0>>, net |-> <<0, 0>>]
           /\ run = [active |-> TRUE, base |-> exportJSON(group), edits |-> 0, undos |-> 0]
           /\ steps = 0
           /\ image = NoImage
           /\ call = NoCall
           /\ MockupMounted

\* Pointer events only: presses, moves and releases of one editing session.
EditNext ==
    /\ steps < MaxEditSteps
    /\ steps' = steps + 1
    /\ \/ MouseDown
       \/ \E d \in Deltas : onMouseDrag(d)
       \/ onMouseUp
    /\ UNCHANGED <<image, call, mockupVars>>

EditSpec == EditInit /\ [][EditNext]_vars

\* ------------------------------------------------------------------ exports
\* Lengths of an exported viewBox are counted in halves of a pixel, so that
\* half a stroke width is a whole number.
Half == 2

\* Every path item of the project, bottom to top (project.exportSVG walks all
\* children of the layer; the raster has none).
RECURSIVE ProjectPaths(_)
ProjectPaths(lyr) ==
    IF lyr = <<>> THEN <<>> ELSE Head(lyr).children \o ProjectPaths(Tail(lyr))

Rectangle(x, y, width, height) == [x |-> x, y |-> y, width |-> width, height |-> height]

\* item.strokeBounds of a group (paper.js): the union of the stroke bounds of
\* its non-empty children, each the box of the path's nodes grown by half its
\* own stroke width; Rectangle(0, 0, 0, 0) when no child has a segment. The
\* bulge of a curve beyond its nodes and the miter of a join are left out.
strokeBounds(group) ==
    LET nodes == UNION {{<<p, i>> : i \in 1..Len(group.children[p].segments)} : p \in 1..Len(group.children)}
        lo(c) == {Half * group.children[n[1]].segments[n[2]].point[c] - group.children[n[1]].style.strokeWidth : n \in nodes}
        hi(c) == {Half * group.children[n[1]].segments[n[2]].point[c] + group.children[n[1]].style.strokeWidth : n \in nodes}
        least(S) == CHOOSE m \in S : \A e \in S : m <= e
        greatest(S) == CHOOSE m \in S : \A e \in S : m >= e
    IN IF nodes = {} THEN Rectangle(0, 0, 0, 0)
       ELSE Rectangle(least(lo(1)), least(lo(2)),
                      greatest(hi(1)) - least(lo(1)), greatest(hi(2)) - least(lo(2)))

\* The link.click() of an export: the file name, the bounds handed to
\* exportSVG (its viewBox) and the path items serialized.
Download(name, file, viewBox, paths) ==
    [name |-> name, written |-> TRUE, file |-> file, viewBox |-> viewBox, paths |-> paths]

\* An export that returned before writing.
NoDownload(name) == [name |-> name, written |-> FALSE]

AlignedBoundsFitsPaths(a, lyr) ==
    IF getItem(lyr, "outlines") = 0 THEN Rectangle(0, 0, 0, 0) ELSE strokeBounds(lyr[getItem(lyr, "outlines")])

\* new paper.Rectangle(0, 0, appState.imageWidth, appState.imageHeight)
AlignedBounds(a, lyr) == Rectangle(0, 0, Half * a.imageWidth, Half * a.imageHeight)

exportSVGAligned(a, lyr) ==
    IF a.imageWidth = 0 \/ a.imageHeight = 0 THEN NoDownload("exportSVGAligned")
    ELSE Download("exportSVGAligned", "contour-crafted-outline-aligned.svg", AlignedBounds(a, lyr), ProjectPaths(lyr))

\* The older handle method, same bounds under another file name.
exportSVG(a, lyr) ==
    IF a.imageWidth = 0 \/ a.imageHeight = 0 THEN NoDownload("exportSVG")
    ELSE Download("exportSVG", "contour-crafted-outline.svg", AlignedBounds(a, lyr), ProjectPaths(lyr))

PaddingFloor(strokeWidth) == Max(0, strokeWidth \div 2)

\* Math.max(0, Math.ceil(appState.strokeWidth / 2)), in pixels.
Padding(strokeWidth) == Max(0, (strokeWidth + 1) \div 2)

exportSVGTrimmed(a, lyr) ==
    IF a.imageWidth = 0 \/ a.imageHeight = 0 THEN NoDownload("exportSVGTrimmed")
    ELSE IF getItem(lyr, "outlines") = 0 THEN NoDownload("exportSVGTrimmed")
    ELSE LET b == strokeBounds(lyr[getItem(lyr, "outlines")])
             padding == Half * Padding(a.style.strokeWidth)
         IN Download("exportSVGTrimmed", "contour-crafted-outline-trimmed.svg",
                     Rectangle(b.x - padding, b.y - padding, b.width + padding * 2, b.height + padding * 2),
                     ProjectPaths(lyr))

HasCurves(path) == CountCurves(path) > 0

exportPDFAbortsOnThrow(a, lyr, addImageThrows) ==
    IF a.imageWidth = 0 \/ a.imageHeight = 0 THEN NoDownload("exportPDF")
    ELSE IF getItem(lyr, "mainImage") # 0 /\ addImageThrows
         THEN [name |-> "exportPDF", written |-> FALSE, file |-> "", format |-> <<a.imageWidth, a.imageHeight>>,
               imageAdded |-> FALSE, logged |-> TRUE, strokes |-> <<>>]
    ELSE [name |-> "exportPDF", written |-> TRUE, file |-> "contour-crafted-export.pdf",
          format |-> <<a.imageWidth, a.imageHeight>>,
          imageAdded |-> getItem(lyr, "mainImage") # 0,
          logged |-> FALSE,
          strokes |-> IF getItem(lyr, "outlines") = 0 THEN <<>>
                      ELSE SelectSeq(lyr[getItem(lyr, "outlines")].children, HasCurves)]

\* exportPDF: a page of the image's size, the raster unless doc.addImage
\* throws (caught and logged), one stroke per path of the 'outlines' item
\* that has a curve, then doc.save.
exportPDF(a, lyr, addImageThrows) ==
    IF a.imageWidth = 0 \/ a.imageHeight = 0 THEN NoDownload("exportPDF")
    ELSE [name |-> "exportPDF", written |-> TRUE, file |-> "contour-crafted-export.pdf",
          format |-> <<a.imageWidth, a.imageHeight>>,
          imageAdded |-> getItem(lyr, "mainImage") # 0 /\ ~addImageThrows,
          logged |-> getItem(lyr, "mainImage") # 0 /\ addImageThrows,
          strokes |-> IF getItem(lyr, "outlines") = 0 THEN <<>>
                      ELSE SelectSeq(lyr[getItem(lyr, "outlines")].children, HasCurves)]

\* An export button of the toolbar: the handle method runs on the latest
\* appState and the live project, and changes neither.
Export(result) ==
    /\ call' = result
    /\ op' = Op(result.name, FALSE, result.written, "none", FALSE)
    /\ UNCHANGED <<appState, processedPathData, isProcessing, history, historyIndex, notified,
                   layer, requests, issued, pendingLoads, segment, isDragging, lastClickTime,
                   mouse, run, image, mockupVars>>

ExportSVGAligned == Export(exportSVGAligned(appState, layer))

ExportSVGTrimmed == Export(exportSVGTrimmed(appState, layer))

ExportSVG == Export(exportSVG(appState, layer))

ExportPDF(addImageThrows) == Export(exportPDF(appState, layer, addImageThrows))

ExportInit ==
    /\ EditorMounted(1)
    /\ image = NoImage
    /\ call = NoCall
    /\ MockupMounted

\* Behaviours of at most MaxExportSteps handler runs and exports.
ExportNext ==
    /\ steps < MaxExportSteps
    /\ steps' = steps + 1
    /\ \/ Handler /\ UNCHANGED <<image, call, mockupVars>>
       \/ ExportSVGAligned
       \/ ExportSVGTrimmed
       \/ ExportSVG
       \/ \E addImageThrows \in BOOLEAN : ExportPDF(addImageThrows)

ExportSpec == ExportInit /\ [][ExportNext]_vars

\* --------------------------------------------------------------- field blur
\* Alpha bytes of the test images: transparent, translucent, opaque.
AlphaChoices == {0, 100, 255}

\* Decoded images of at most MaxFieldCells pixels.
Fields ==
    UNION {[width : {wh[1]}, height : {wh[2]}, data : [1..(wh[1] * wh[2]) -> AlphaChoices]] :
               wh \in {d \in (1..MaxFieldCells) \X (1..MaxFieldCells) : d[1] * d[2] <= MaxFieldCells}}

\* A store into a Uint8Array: the fraction is dropped, 8 bits are kept.
ToUint8(sum, count) == (sum \div count) % 256

RECURSIVE SumOver(_, _, _)
SumOver(f, k, last) == IF k > last THEN 0 ELSE f[k] + SumOver(f, k + 1, last)

ClampWraps(i, n) == i % n

\* Math.min(n - 1, Math.max(0, i))
Clamp(i, n) == Min(n - 1, Max(0, i))

\* Horizontal pass, lines 40-54: temp[y * width + x] = sum / count over
\* px = clamp(x + k), k = -radius..radius.
HorizontalPass(alpha, width, height, radius) ==
    [i \in 1..(width * height) |->
        LET y == (i - 1) \div width
            x == (i - 1) % width
        IN ToUint8(SumOver([k \in (0 - radius)..radius |-> alpha[y * width + Clamp(x + k, width) + 1]],
                           0 - radius, radius),
                   2 * radius + 1)]

\* Vertical pass, lines 56-68, over the result of the horizontal pass.
VerticalPass(temp, width, height, radius) ==
    [i \in 1..(width * height) |->
        LET y == (i - 1) \div width
            x == (i - 1) % width
        IN ToUint8(SumOver([k \in (0 - radius)..radius |-> temp[Clamp(y + k, height) * width + x + 1]],
                           0 - radius, radius),
                   2 * radius + 1)]

blurAlphaChannelCopies(data, width, height, radius) == [data |-> data, passedThrough |-> radius <= 0]

\* blurAlphaChannel(data, width, height, radius): data holds the alpha bytes
\* of the ImageData buffer; the result is the buffer after the call and
\* whether the call returned at line 21 without touching it.
blurAlphaChannel(data, width, height, radius) ==
    IF radius <= 0 THEN [data |-> data, passedThrough |-> TRUE]
    ELSE [data |-> VerticalPass(HorizontalPass(data, width, height, radius), width, height, radius),
          passedThrough |-> FALSE]

EffectiveRadiusRaw(blurRadius) == blurRadius

\* Math.max(1, blurRadius), line 104.
EffectiveRadius(blurRadius) == Max(1, blurRadius)

\* generateOutlineCoordinates up to the blur (lines 91-104): the image is
\* drawn on a fresh canvas, getImageData copies its pixels, the blur runs on
\* the copy.
BlurredField(img, blurRadius) ==
    blurAlphaChannel(img.data, img.width, img.height, EffectiveRadius(blurRadius))

\* One run of the blur on a buffer holding the image's alpha bytes.
BlurAlphaChannel(radius) ==
    /\ LET result == blurAlphaChannel(image.data, image.width, image.height, radius)
       IN call' = [name |-> "blurAlphaChannel", radius |-> radius, width |-> image.width,
                   height |-> image.height, before |-> image.data,
                   after |-> result.data, passedThrough |-> result.passedThrough]
    /\ UNCHANGED <<editorVars, image, mockupVars>>

\* One generation request with the slider at blurRadius.
GenerateField(blurRadius) ==
    /\ LET result == BlurredField(image, blurRadius)
       IN call' = [name |-> "generateOutlineCoordinates", radius |-> blurRadius, width |-> image.width,
                   height |-> image.height, before |-> image.data,
                   after |-> result.data, passedThrough |-> result.passedThrough]
    /\ UNCHANGED <<editorVars, image, mockupVars>>

BlurInit ==
    /\ EditorMounted(1)
    /\ image \in Fields
    /\ call = NoCall
    /\ MockupMounted

BlurNext ==
    \/ \E radius \in 0..MaxBlurRadius : BlurAlphaChannel(radius)
    \/ \E blurRadius \in 0..MaxBlurRadius : GenerateField(blurRadius)

BlurSpec == BlurInit /\ [][BlurNext]_vars

\* ------------------------------------------------------------ mockup layout
\* Instances a composition may hold, and pairs one upload may bring.
MaxInstances == 4

MaxPairs == 2

\* Largest count typed into a layer's total field.
MaxTotalCount == 3

\* Handler runs of one mockup session.
MaxMockupSteps == 4

\* fits(r, w, h) inside packWithinBoundary.
fits(r, w, h) == w <= r.w /\ h <= r.h

\* area(r) inside packWithinBoundary.
area(r) == r.w * r.h

\* The elements of seq whose index is in keep, in order, from index i on.
RECURSIVE Pick(_, _, _)
Pick(seq, keep, i) ==
    IF i > Len(seq) THEN <<>>
    ELSE (IF i \in keep THEN <<seq[i]>> ELSE <<>>) \o Pick(seq, keep, i + 1)

\* The test `contained` of pruneContained: a lies inside b.
Contained(a, b) ==
    /\ a.x >= b.x
    /\ a.y >= b.y
    /\ a.x + a.w <= b.x + b.w
    /\ a.y + a.h <= b.y + b.h

\* pruneContained: drop every rectangle contained in another one of the list,
\* and every empty one.
pruneContained(rects) ==
    Pick(rects,
         {idx \in 1..Len(rects) :
            /\ \A j \in 1..Len(rects) : j = idx \/ ~Contained(rects[idx], rects[j])
            /\ rects[idx].w > 0
            /\ rects[idx].h > 0},
         1)

\* Variant of splitFreeRect whose right part starts at the corner the
\* rectangle was placed at.
splitFreeRectKeepsCorner(r, w, h) ==
    LET right == [x |-> r.x, y |-> r.y, w |-> r.w - w, h |-> h]
        bottom == [x |-> r.x, y |-> r.y + h, w |-> r.w, h |-> r.h - h]
        bottomRight == [x |-> r.x + w, y |-> r.y + h, w |-> r.w - w, h |-> r.h - h]
    IN pruneContained(SelectSeq(<<right, bottom, bottomRight>>, LAMBDA fr : fr.w > 0 /\ fr.h > 0))

\* splitFreeRect: a w by h rectangle is placed at the corner (r.x, r.y) of the
\* free rectangle r; what is left of r.
splitFreeRect(r, w, h) ==
    LET right == [x |-> r.x + w, y |-> r.y, w |-> r.w - w, h |-> h]
        bottom == [x |-> r.x, y |-> r.y + h, w |-> r.w, h |-> r.h - h]
        bottomRight == [x |-> r.x + w, y |-> r.y + h, w |-> r.w - w, h |-> r.h - h]
    IN pruneContained(SelectSeq(<<right, bottom, bottomRight>>, LAMBDA fr : fr.w > 0 /\ fr.h > 0))

\* [...rects].sort((a, b) => area(b) - area(a)): r goes behind every
\* rectangle of the sorted list that is at least as large (the sort is stable).
RECURSIVE InsertByArea(_, _)
InsertByArea(sorted, r) ==
    IF sorted = <<>> THEN <<r>>
    ELSE IF area(Head(sorted)) >= area(r) THEN <<Head(sorted)>> \o InsertByArea(Tail(sorted), r)
    ELSE <<r>> \o sorted

RECURSIVE SortByArea(_, _)
SortByArea(rects, n) ==
    IF n = 0 THEN <<>> ELSE InsertByArea(SortByArea(rects, n - 1), rects[n])

\* The orientations tried for rect.
Orientations(rect, allowRotate90) ==
    <<[w |-> rect.w, h |-> rect.h, rotationDeg |-> 0]>>
    \o (IF allowRotate90 /\ rect.w # rect.h
        THEN <<[w |-> rect.h, h |-> rect.w, rotationDeg |-> 90]>>
        ELSE <<>>)

\* bestIndex, bestScore, bestW, bestH, bestRot before the search: index 0 for
\* -1, found FALSE for the score POSITIVE_INFINITY.
NoBest(rect) ==
    [index |-> 0, found |-> FALSE, score |-> 0, w |-> rect.w, h |-> rect.h, rot |-> 0]

\* The body of the inner loop for free[i] = fr and the orientation opt.
Consider(best, i, fr, opt) ==
    IF ~fits(fr, opt.w, opt.h) THEN best
    ELSE LET score == area(fr) - opt.w * opt.h
         IN IF \/ ~best.found
               \/ score < best.score
               \/ (score = best.score /\ opt.rotationDeg = 0 /\ best.rot = 90)
            THEN [index |-> i, found |-> TRUE, score |-> score, w |-> opt.w, h |-> opt.h,
                  rot |-> opt.rotationDeg]
            ELSE best

\* The two nested loops that choose the free rectangle and the orientation,
\* from free[i] and orientations[k] on.
RECURSIVE ChooseBest(_, _, _, _, _)
ChooseBest(free, orientations, i, k, best) ==
    IF i > Len(free) THEN best
    ELSE IF k > Len(orientations) THEN ChooseBest(free, orientations, i + 1, 1, best)
    ELSE ChooseBest(free, orientations, i, k + 1, Consider(best, i, free[i], orientations[k]))

\* The loop over the sorted rectangles, from sorted[n] on; st holds free,
\* placed and notPlaced, and in seen the free list each rectangle was tried
\* against.
RECURSIVE PackLoop(_, _, _, _)
PackLoop(sorted, n, allowRotate90, st) ==
    IF n > Len(sorted) THEN st
    ELSE LET rect == sorted[n]
             best == ChooseBest(st.free, Orientations(rect, allowRotate90), 1, 1, NoBest(rect))
             seen == Append(st.seen, [id |-> rect.id, free |-> st.free])
         IN IF best.index = 0
            THEN PackLoop(sorted, n + 1, allowRotate90,
                          [st EXCEPT !.notPlaced = Append(@, rect.id), !.seen = seen])
            ELSE LET target == st.free[best.index]
                     newFree == splitFreeRect(target, best.w, best.h)
                     free == SubSeq(st.free, 1, best.index - 1)
                             \o SubSeq(st.free, best.index + 1, Len(st.free)) \o newFree
                 IN PackLoop(sorted, n + 1, allowRotate90,
                             [free |-> pruneContained(free),
                              placed |-> Append(st.placed,
                                                [id |-> rect.id, x |-> target.x, y |-> target.y,
                                                 rotationDeg |-> best.rot]),
                              notPlaced |-> st.notPlaced,
                              seen |-> seen])

\* packWithinBoundary: placed and notPlaced, with the free lists seen.
packWithinBoundary(rects, boundaryWidth, boundaryHeight, allowRotate90) ==
    PackLoop(SortByArea(rects, Len(rects)), 1, allowRotate90,
             [free |-> <<[x |-> 0, y |-> 0, w |-> boundaryWidth, h |-> boundaryHeight]>>,
              placed |-> <<>>, notPlaced |-> <<>>, seen |-> <<>>])

\* ------------------------------------------------------------- mockup state
\* Image and SVG pairs picked in the file dialog: the image's size and the
\* bounding box getBBox reports for the SVG; complete is FALSE for a stem
\* with one file missing or a file that fails to load.
GroupChoices ==
    {[complete |-> TRUE, width |-> 440, height |-> 290,
      bbox |-> [x |-> 0, y |-> 0, width |-> 440, height |-> 290]],
     [complete |-> TRUE, width |-> 300, height |-> 900,
      bbox |-> [x |-> 7, y |-> 3, width |-> 286, height |-> 886]],
     [complete |-> FALSE, width |-> 0, height |-> 0,
      bbox |-> [x |-> 0, y |-> 0, width |-> 0, height |-> 0]]}

\* Values typed into the boundary width and height fields (Number(v) || 0).
BoundaryChoices == {0, 600}

\* Values typed into the gap field.
GapChoices == {0 - 10, 20}

\* Corner position a drag moves an instance to.
DragChoices == {<<0 - 20, 40>>}

\* Values typed into a layer's total field, in halves: -1, 0, 1, 1.5, 2, ...
TotalCountChoices == {2 * n : n \in (0 - 1)..MaxTotalCount} \cup {3}

\* measureSvgBBox: the SVG's bounding box grown by the padding and clipped to
\* the viewport, at least 1 by 1.
measureSvgBBox(bbox, viewportW, viewportH, padding) ==
    LET x0 == Max(0, bbox.x - padding)
        y0 == Max(0, bbox.y - padding)
        x1 == Min(viewportW, bbox.x + bbox.width + padding)
        y1 == Min(viewportH, bbox.y + bbox.height + padding)
    IN [x |-> x0, y |-> y0, width |-> Max(1, x1 - x0), height |-> Max(1, y1 - y0)]

\* The loop of handleMockupUpload over the groups, from groups[k] on: each
\* complete pair adds a layer with totalCount 1 and one instance of it, both
\* with fresh ids; the others are reported missing.
RECURSIVE CollectPairs(_, _, _)
CollectPairs(groups, k, acc) ==
    IF k > Len(groups) THEN acc
    ELSE IF ~groups[k].complete
    THEN CollectPairs(groups, k + 1, [acc EXCEPT !.missing = @ + 1])
    ELSE LET g == groups[k]
             bbox == measureSvgBBox(g.bbox, g.width, g.height, 2)
             layerId == acc.newIds + 1
         IN CollectPairs(groups, k + 1,
                [layersToAdd |-> Append(acc.layersToAdd,
                                   [id |-> layerId, width |-> g.width, height |-> g.height,
                                    layoutX |-> bbox.x, layoutY |-> bbox.y,
                                    layoutWidth |-> bbox.width, layoutHeight |-> bbox.height,
                                    totalCount |-> 1]),
                 instancesToAdd |-> Append(acc.instancesToAdd,
                                   [id |-> layerId + 1, layerId |-> layerId, x |-> 0, y |-> 0,
                                    rotationDeg |-> 0]),
                 missing |-> acc.missing,
                 newIds |-> acc.newIds + 2])

\* The ids of the instances in a list.
Ids(instances) == {instances[i].id : i \in 1..Len(instances)}

\* missingCount new instances of the layer, with fresh ids.
Additions(layerId, missingCount, ids) ==
    [k \in 1..missingCount |->
        [id |-> ids + k, layerId |-> layerId, x |-> 0, y |-> 0, rotationDeg |-> 0]]

\* The updater of setLayerTotalCount for a total typed as totalCount halves;
\* ids is the number of ids issued so far.
setLayerTotalCount(prev, layerId, totalCount, ids) ==
    LET safeTotal == Max(0, totalCount \div 2)
        instancesForLayer == SelectSeq(prev.instances, LAMBDA i : i.layerId = layerId)
    IN IF safeTotal = 0
       THEN LET instanceIds == Ids(instancesForLayer)
            IN [state |-> [prev EXCEPT
                    !.layers = SelectSeq(prev.layers, LAMBDA l : l.id # layerId),
                    !.instances = SelectSeq(prev.instances, LAMBDA i : i.layerId # layerId),
                    !.selectedInstanceId = IF @ # 0 /\ @ \in instanceIds THEN 0 ELSE @,
                    !.notPlacedInstanceIds = SelectSeq(@, LAMBDA id : id \notin instanceIds),
                    !.lastLayoutMessage = NoMessage],
                newIds |-> ids]
       ELSE LET layers == [i \in 1..Len(prev.layers) |->
                              IF prev.layers[i].id = layerId
                              THEN [prev.layers[i] EXCEPT !.totalCount = safeTotal]
                              ELSE prev.layers[i]]
                shrinks == Len(instancesForLayer) > safeTotal
                grows == Len(instancesForLayer) < safeTotal
                keepIds == Ids(SubSeq(instancesForLayer, 1, safeTotal))
                removedIds == IF shrinks THEN Ids(instancesForLayer) \ keepIds ELSE {}
                missingCount == IF grows THEN safeTotal - Len(instancesForLayer) ELSE 0
                instances ==
                    IF shrinks
                    THEN SelectSeq(prev.instances, LAMBDA i : i.layerId # layerId \/ i.id \in keepIds)
                    ELSE prev.instances \o Additions(layerId, missingCount, ids)
            IN [state |-> [prev EXCEPT
                    !.layers = layers,
                    !.instances = instances,
                    !.selectedInstanceId = IF @ # 0 /\ @ \in removedIds THEN 0 ELSE @,
                    !.notPlacedInstanceIds = SelectSeq(@, LAMBDA id : id \notin removedIds),
                    !.lastLayoutMessage = NoMessage],
                newIds |-> ids + missingCount]

\* The layer with the given id (layers.find, layerMap.get); the caller checks
\* that there is one.
LayerOf(layers, layerId) ==
    layers[CHOOSE i \in 1..Len(layers) :
              /\ layers[i].id = layerId
              /\ \A j \in 1..(i - 1) : layers[j].id # layerId]

HasLayer(layers, layerId) == \E i \in 1..Len(layers) : layers[i].id = layerId

\* Variant of the updater of deleteSelectedInstance that leaves the layer's
\* total as it was.
deleteSelectedInstanceKeepsTotal(prev) ==
    IF prev.selectedInstanceId = 0 THEN prev
    ELSE IF prev.selectedInstanceId \notin Ids(prev.instances)
    THEN [prev EXCEPT !.selectedInstanceId = 0]
    ELSE [prev EXCEPT
             !.instances = SelectSeq(@, LAMBDA i : i.id # prev.selectedInstanceId),
             !.notPlacedInstanceIds = SelectSeq(@, LAMBDA id : id # prev.selectedInstanceId),
             !.selectedInstanceId = 0]

\* The updater of deleteSelectedInstance.
deleteSelectedInstance(prev) ==
    IF prev.selectedInstanceId = 0 THEN prev
    ELSE IF prev.selectedInstanceId \notin Ids(prev.instances)
    THEN [prev EXCEPT !.selectedInstanceId = 0]
    ELSE LET target == CHOOSE i \in {prev.instances[k] : k \in 1..Len(prev.instances)} :
                           i.id = prev.selectedInstanceId
             instances == SelectSeq(prev.instances, LAMBDA i : i.id # target.id)
             notPlacedInstanceIds == SelectSeq(prev.notPlacedInstanceIds, LAMBDA id : id # target.id)
         IN IF ~HasLayer(prev.layers, target.layerId)
            THEN [prev EXCEPT !.instances = instances,
                              !.notPlacedInstanceIds = notPlacedInstanceIds,
                              !.selectedInstanceId = 0]
            ELSE LET layer0 == LayerOf(prev.layers, target.layerId)
                     newTotal == Max(0, layer0.totalCount - 1)
                 IN IF newTotal = 0
                    THEN LET remainingInstances == SelectSeq(instances, LAMBDA i : i.layerId # layer0.id)
                         IN [prev EXCEPT
                                !.layers = SelectSeq(@, LAMBDA l : l.id # layer0.id),
                                !.instances = remainingInstances,
                                !.notPlacedInstanceIds =
                                    SelectSeq(notPlacedInstanceIds,
                                              LAMBDA id : id \in Ids(remainingInstances)),
                                !.selectedInstanceId = 0]
                    ELSE [prev EXCEPT
                             !.layers = [i \in 1..Len(prev.layers) |->
                                            IF prev.layers[i].id = layer0.id
                                            THEN [prev.layers[i] EXCEPT !.totalCount = newTotal]
                                            ELSE prev.layers[i]],
                             !.instances = instances,
                             !.notPlacedInstanceIds = notPlacedInstanceIds,
                             !.selectedInstanceId = 0]

\* The rectangles handleAutoLayout hands to the packing: one per instance
\* whose layer exists, the layer's layout box grown by the gap. Every layer
\* comes from handleMockupUpload, which measures its layout box, so the
\* branch that measures a layer without one never runs.
PackRects(prev, baseInstances) ==
    LET known == SelectSeq(baseInstances, LAMBDA inst : HasLayer(prev.layers, inst.layerId))
    IN [k \in 1..Len(known) |->
           [id |-> known[k].id,
            w |-> LayerOf(prev.layers, known[k].layerId).layoutWidth + prev.minGap,
            h |-> LayerOf(prev.layers, known[k].layerId).layoutHeight + prev.minGap]]

\* baseInstances of handleAutoLayout.
BaseInstances(prev) ==
    IF prev.allowRotate90 THEN prev.instances
    ELSE [k \in 1..Len(prev.instances) |-> [prev.instances[k] EXCEPT !.rotationDeg = 0]]

\* The updater of handleAutoLayout, given the packing's result.
handleAutoLayout(prev, result) ==
    LET baseInstances == BaseInstances(prev)
        Placement(id) == CHOOSE pl \in {result.placed[k] : k \in 1..Len(result.placed)} : pl.id = id
        instances == [k \in 1..Len(baseInstances) |->
                         IF baseInstances[k].id \in Ids(result.placed)
                         THEN [baseInstances[k] EXCEPT
                                  !.x = Placement(baseInstances[k].id).x,
                                  !.y = Placement(baseInstances[k].id).y,
                                  !.rotationDeg = Placement(baseInstances[k].id).rotationDeg]
                         ELSE baseInstances[k]]
    IN [prev EXCEPT
           !.instances = instances,
           !.notPlacedInstanceIds = result.notPlaced,
           !.lastLayoutMessage = [isNull |-> FALSE, placedCount |-> Len(result.placed),
                                  notPlacedCount |-> Len(result.notPlaced),
                                  allowRotate90 |-> prev.allowRotate90]]

\* ----------------------------------------------------------- mockup actions
\* What a mockup handler leaves alone in the editor.
EditorIdle ==
    UNCHANGED <<appState, processedPathData, isProcessing, history, historyIndex, notified,
                layer, requests, issued, pendingLoads, segment, isDragging, lastClickTime,
                mouse, op, run, image>>

\* The sequences of 1..MaxPairs groups one file dialog may return.
GroupLists == UNION {[1..n -> GroupChoices] : n \in 1..MaxPairs}

\* handleMockupUpload for the groups of the picked files; the state is only
\* touched by the updater at its end.
HandleMockupUpload(groups) ==
    LET added == CollectPairs(groups, 1, [layersToAdd |-> <<>>, instancesToAdd |-> <<>>,
                                          missing |-> 0, newIds |-> newIds])
    IN /\ Len(mockupState.instances) + Len(added.instancesToAdd) <= MaxInstances
       /\ mockupState' = IF Len(added.layersToAdd) > 0
                         THEN [mockupState EXCEPT
                                  !.layers = @ \o added.layersToAdd,
                                  !.instances = @ \o added.instancesToAdd,
                                  !.notPlacedInstanceIds = <<>>,
                                  !.lastLayoutMessage = NoMessage]
                         ELSE mockupState
       /\ newIds' = added.newIds
       /\ call' = [name |-> "handleMockupUpload", layerId |-> 0, total |-> Len(added.layersToAdd)]
       /\ UNCHANGED dragState

\* The total field of a listed layer changes to totalCount halves.
SetLayerTotalCount(layerId, totalCount) ==
    LET result == setLayerTotalCount(mockupState, layerId, totalCount, newIds)
    IN /\ HasLayer(mockupState.layers, layerId)
       /\ Len(result.state.instances) <= MaxInstances
       /\ mockupState' = result.state
       /\ newIds' = result.newIds
       /\ call' = [name |-> "setLayerTotalCount", layerId |-> layerId,
                   total |-> Max(0, totalCount \div 2)]
       /\ UNCHANGED dragState

\* The x, Delete or Backspace key on the mockup tab; call keeps the layer of
\* the deleted instance (0 when nothing was deleted) and the total it had.
DeleteSelectedInstance ==
    /\ mockupState' = deleteSelectedInstance(mockupState)
    /\ call' = LET hit == {k \in 1..Len(mockupState.instances) :
                              /\ mockupState.instances[k].id = mockupState.selectedInstanceId
                              /\ HasLayer(mockupState.layers, mockupState.instances[k].layerId)}
               IN IF hit = {}
                  THEN [name |-> "deleteSelectedInstance", layerId |-> 0, total |-> 0]
                  ELSE LET target == mockupState.instances[CHOOSE k \in hit : TRUE]
                       IN [name |-> "deleteSelectedInstance", layerId |-> target.layerId,
                           total |-> LayerOf(mockupState.layers, target.layerId).totalCount]
    /\ UNCHANGED <<dragState, newIds>>

\* The auto layout button.
HandleAutoLayout ==
    LET rects == PackRects(mockupState, BaseInstances(mockupState))
        result == packWithinBoundary(rects, mockupState.boundaryWidth, mockupState.boundaryHeight,
                                     mockupState.allowRotate90)
    IN /\ mockupState' = handleAutoLayout(mockupState, result)
       /\ call' = [name |-> "packWithinBoundary", rects |-> rects,
                   boundaryWidth |-> mockupState.boundaryWidth,
                   boundaryHeight |-> mockupState.boundaryHeight,
                   allowRotate90 |-> mockupState.allowRotate90,
                   placed |-> result.placed, notPlaced |-> result.notPlaced,
                   seen |-> result.seen]
       /\ UNCHANGED <<dragState, newIds>>

\* The boundary width field.
SetBoundaryWidth(v) ==
    /\ mockupState' = [mockupState EXCEPT !.boundaryWidth = v]
    /\ call' = [name |-> "setBoundaryWidth"]
    /\ UNCHANGED <<dragState, newIds>>

\* The boundary height field.
SetBoundaryHeight(v) ==
    /\ mockupState' = [mockupState EXCEPT !.boundaryHeight = v]
    /\ call' = [name |-> "setBoundaryHeight"]
    /\ UNCHANGED <<dragState, newIds>>

\* The gap field.
SetMinGap(v) ==
    /\ mockupState' = [mockupState EXCEPT !.minGap = Max(0, v)]
    /\ call' = [name |-> "setMinGap"]
    /\ UNCHANGED <<dragState, newIds>>

\* The rotation checkbox.
ToggleAllowRotate90 ==
    LET checked == ~mockupState.allowRotate90
    IN /\ mockupState' = [mockupState EXCEPT
              !.allowRotate90 = checked,
              !.instances = IF checked THEN @
                            ELSE [k \in 1..Len(@) |-> [@[k] EXCEPT !.rotationDeg = 0]],
              !.notPlacedInstanceIds = <<>>,
              !.lastLayoutMessage = NoMessage]
       /\ call' = [name |-> "toggleAllowRotate90"]
       /\ UNCHANGED <<dragState, newIds>>

\* MockupCanvas handleMouseDown on the rendered instance id: select it and
\* start dragging it.
HandleMouseDown(id) ==
    /\ id \in Ids(mockupState.instances)
    /\ mockupState' = [mockupState EXCEPT !.selectedInstanceId = id]
    /\ dragState' = id
    /\ call' = [name |-> "handleMouseDown"]
    /\ UNCHANGED newIds

\* The window mousemove listener of a drag: the dragged instance follows.
OnMouseMove(pos) ==
    /\ dragState # 0
    /\ mockupState' = [mockupState EXCEPT
           !.instances = [k \in 1..Len(@) |->
                             IF @[k].id = dragState
                             THEN [@[k] EXCEPT !.x = pos[1], !.y = pos[2]]
                             ELSE @[k]]]
    /\ call' = [name |-> "onMouseMove"]
    /\ UNCHANGED <<dragState, newIds>>

\* The window mouseup listener of a drag.
OnMouseUp ==
    /\ dragState # 0
    /\ dragState' = 0
    /\ call' = [name |-> "onMouseUp"]
    /\ UNCHANGED <<mockupState, newIds>>

\* MockupCanvas handleBoundaryMouseDown: a press on the empty boundary
\* clears the selection (and starts panning the viewport).
HandleBoundaryMouseDown ==
    /\ mockupState' = [mockupState EXCEPT !.selectedInstanceId = 0]
    /\ call' = [name |-> "handleBoundaryMouseDown"]
    /\ UNCHANGED <<dragState, newIds>>

MockupInit ==
    /\ EditorMounted(1)
    /\ image = NoImage
    /\ call = NoCall
    /\ MockupMounted

\* Behaviours of at most MaxMockupSteps handler runs on the mockup tab.
MockupNext ==
    /\ steps < MaxMockupSteps
    /\ steps' = steps + 1
    /\ EditorIdle
    /\ \/ \E groups \in GroupLists : HandleMockupUpload(groups)
       \/ \E i \in 1..Len(mockupState.layers), totalCount \in TotalCountChoices :
              SetLayerTotalCount(mockupState.layers[i].id, totalCount)
       \/ DeleteSelectedInstance
       \/ HandleAutoLayout
       \/ \E v \in BoundaryChoices : SetBoundaryWidth(v)
       \/ \E v \in BoundaryChoices : SetBoundaryHeight(v)
       \/ \E v \in GapChoices : SetMinGap(v)
       \/ ToggleAllowRotate90
       \/ \E id \in Ids(mockupState.instances) : HandleMouseDown(id)
       \/ \E pos \in DragChoices : OnMouseMove(pos)
       \/ OnMouseUp
       \/ HandleBoundaryMouseDown

MockupSpec == MockupInit /\ [][MockupNext]_vars

\* =================================================================== claims

\* C1: a commit made while historyIndex < Len(history) - 1 drops every entry
\* after the index, appends the snapshot of the current 'outlines' item and
\* leaves the index on the last entry; the entries up to the old index are
\* untouched and redo is unavailable right afterwards.
C1_CommitDiscardsRedoBranch ==
    [][(op'.pushed /\ historyIndex < Len(history) - 1) =>
          /\ Len(history') = historyIndex + 2
          /\ SubSeq(history', 1, historyIndex + 1) = SubSeq(history, 1, historyIndex + 1)
          /\ history'[Len(history')] = exportJSON(layer'[getItem(layer', "outlines")])
          /\ historyIndex' = Len(history') - 1
          /\ ~(historyIndex' < Len(history') - 1)
          /\ ~notified'.canRedo]_vars

C1_Witness == op.pushed /\ op.dropped > 0 /\ op.name = "mouseDown"

\* C2: the index is within the entries whenever there are any, and it is -1
\* exactly when there are none.
C2_CursorInRange ==
    /\ (history # <<>> => 0 <= historyIndex /\ historyIndex < Len(history))
    /\ (historyIndex = 0 - 1 <=> history = <<>>)

C2_Witness == op.name = "undo" /\ op.effective /\ historyIndex = 0 /\ Len(history) >= 2

\* C3: undo changes nothing when the index is <= 0; otherwise it lowers the
\* index by one, keeps the entries, and the document's paths become the
\* geometry of the entry at the new index.
C3_Undo ==
    [][op'.name = "undo" =>
          IF historyIndex <= 0
          THEN UNCHANGED <<historyIndex, history, layer>>
          ELSE /\ historyIndex' = historyIndex - 1
               /\ history' = history
               /\ Geometry(DocPaths(layer')) = Geometry(history[historyIndex' + 1].children)]_vars

C3_Witness == op.name = "undo" /\ op.effective /\ Len(history) >= 2

\* C4: redo changes nothing when the index is on the last entry (or there is
\* none); otherwise it raises the index by one, keeps the entries, and the
\* document's paths become the geometry of the entry at the new index.
C4_Redo ==
    [][op'.name = "redo" =>
          IF historyIndex >= Len(history) - 1
          THEN UNCHANGED <<historyIndex, history, layer>>
          ELSE /\ historyIndex' = historyIndex + 1
               /\ history' = history
               /\ Geometry(DocPaths(layer')) = Geometry(history[historyIndex' + 1].children)]_vars

C4_Witness == op.name = "redo" /\ op.effective /\ historyIndex >= 1

\* C5: N commits after the history held exactly one entry, with no undo, redo
\* or generation step in between, leave the index at N and N + 1 entries, the
\* first of them still the baseline.
C5_CursorCountsCommits ==
    (run.active /\ run.undos = 0) =>
        /\ historyIndex = run.edits
        /\ Len(history) = run.edits + 1
        /\ history[1] = run.base

C5_Witness == run.active /\ run.undos = 0 /\ run.edits = 2

\* C6: N >= 1 commits from a baseline followed by N undos: right after the
\* N-th undo the document has exactly the geometry of the baseline snapshot,
\* at index 0; any further undo changes neither the document nor the history.
C6_UndoAllRestoresBaseline ==
    /\ [](( /\ run.active
            /\ run.edits >= 1
            /\ run.undos = run.edits
            /\ op.name = "undo"
            /\ op.effective)
           => /\ historyIndex = 0
              /\ Geometry(DocPaths(layer)) = Geometry(run.base.children))
    /\ [][(run.active /\ run.edits >= 1 /\ run.undos = run.edits /\ op'.name = "undo")
            => UNCHANGED <<layer, history, historyIndex>>]_vars

C6_Witness == run.active /\ run.edits = 2 /\ run.undos = 2 /\ op.name = "undo" /\ op.effective

\* C7 as stated: any undo followed at once by a redo brings the index and the
\* entries back to what they were before the undo, and the document to the
\* snapshot that was at the index then.
C7_UndoRedoRoundTrip_Original ==
    [][(op.name = "undo" /\ op'.name = "redo") =>
          /\ historyIndex' = op.before
          /\ history' = history
          /\ (op.before >= 0 =>
                Geometry(DocPaths(layer')) = Geometry(history[op.before + 1].children))]_vars

\* C7: an undo that takes effect (index > 0 before it), followed at once by a
\* redo, is a round trip: the entries never change, the index is back at its
\* value before the undo, and the document has the geometry of the snapshot
\* that was at that index.
C7_UndoRedoRoundTrip ==
    /\ [][op'.name = "undo" => history' = history]_vars
    /\ [][(op.name = "undo" /\ op.effective /\ op'.name = "redo") =>
            /\ historyIndex' = op.before
            /\ history' = history
            /\ Geometry(DocPaths(layer')) = Geometry(history[op.before + 1].children)]_vars

C7_Witness == op.name = "redo" /\ op.afterUndo /\ op.effective

\* C8: the history is empty when a generation's baseline snapshot is pushed,
\* so that snapshot is entry 0 and nothing older can be reached by undo.
C8_BaselineIsEntryZero ==
    [][(op'.name = "rasterLoad" /\ op'.cause = "processDone" /\ op'.pushed) =>
          /\ Len(history') = 1
          /\ historyIndex' = 0]_vars

\* C9: right after a generation commit the project holds one 'outlines' item
\* and nothing else above the raster; it has one closed path per ring of that
\* generation, in ring order, carrying the current style.
C9_CommitReplacesPaths ==
    (op.name = "rasterLoad" /\ op.cause = "processDone") =>
        /\ Cardinality(GroupIndexes) = 1
        /\ Len(DocPaths(layer)) = Len(op.rings)
        /\ \A i \in 1..Len(DocPaths(layer)) :
              /\ DocPaths(layer)[i].closed
              /\ DocPaths(layer)[i].style = appState.style
              /\ DocPaths(layer)[i].segments = NewPath(op.rings[i], appState.simplification, appState.style).segments

\* C10: a finished process() is applied only when it is the latest one issued,
\* and the applied results never go back to an older request.
C10_OnlyLatestRequestApplied ==
    [][op'.name = "processDone" =>
          /\ processedPathData'.request = issued
          /\ processedPathData'.request >= processedPathData.request]_vars

\* C11: a generation commit is one atomic step: between the removal of the old
\* paths (effect 3) and the installation of the new ones with their baseline
\* (raster.onLoad) no pointer event, undo or redo changes the document or the
\* history, and the project never holds more than one 'outlines' item.
C11_GenerationCommitAtomic ==
    /\ [](Cardinality({k \in GroupIndexes : layer[k].name = "outlines"}) <= 1)
    /\ [][(pendingLoads # {} /\ op'.name \in {"undo", "redo", "mouseDown", "mouseDrag", "mouseUp"})
            => UNCHANGED <<layer, history, historyIndex>>]_vars

\* C12: a double-click press on a node removes exactly that node (every other
\* node, path and item unchanged), pushes exactly one snapshot in the same
\* step and grabs nothing; with nothing grabbed a pointer move changes
\* nothing and the release pushes nothing.
C12_DoubleClickRemovesNode ==
    /\ [][(op'.name = "mouseDown" /\ op'.hit = "segment" /\ op'.isDoubleClick) =>
            LET g == op'.target[1]
                p == op'.target[2]
                i == op'.target[3]
                old == layer[g].children[p]
                new == layer'[g].children[p]
            IN /\ Len(layer') = Len(layer)
               /\ \A k \in 1..Len(layer) : k # g => layer'[k] = layer[k]
               /\ layer'[g].id = layer[g].id
               /\ Len(layer'[g].children) = Len(layer[g].children)
               /\ \A q \in 1..Len(layer[g].children) : q # p => layer'[g].children[q] = layer[g].children[q]
               /\ new.closed = old.closed
               /\ new.style = old.style
               /\ Len(new.segments) = Len(old.segments) - 1
               /\ \A j \in 1..Len(new.segments) : new.segments[j] = old.segments[IF j < i THEN j ELSE j + 1]
               /\ op'.pushed
               /\ historyIndex' = historyIndex + 1
               /\ Len(history') = historyIndex + 2
               /\ SubSeq(history', 1, historyIndex + 1) = SubSeq(history, 1, historyIndex + 1)
               /\ segment'.isNull
               /\ ~isDragging']_vars
    /\ [][(op'.name = "mouseDrag" /\ segment.isNull) =>
            UNCHANGED <<layer, history, historyIndex, segment, isDragging>>]_vars
    /\ [][(op'.name = "mouseUp" /\ segment.isNull) =>
            ~op'.pushed /\ UNCHANGED <<layer, history, historyIndex>>]_vars

C12_Witness ==
    /\ op.name = "mouseDown"
    /\ op.hit = "segment"
    /\ op.isDoubleClick
    /\ op.pushed
    /\ op.target[3] = 2
    /\ segment.isNull

\* C13: a press that hits a node and is not a double-click grabs exactly that
\* node and changes neither the document nor the history (entries, index,
\* notified flags).
C13_ClickGrabsNode ==
    [][(op'.name = "mouseDown" /\ op'.hit = "segment" /\ ~op'.isDoubleClick) =>
          /\ ~segment'.isNull
          /\ segment'.gid = layer[op'.target[1]].id
          /\ segment'.path = op'.target[2]
          /\ segment'.index = op'.target[3]
          /\ ~op'.pushed
          /\ UNCHANGED <<layer, history, historyIndex, notified>>]_vars

C13_Witness ==
    /\ op.name = "mouseDown"
    /\ op.hit = "segment"
    /\ ~op.isDoubleClick
    /\ op.target[3] = 2
    /\ ~segment.isNull
    /\ mouse = "down"

\* C14: a press that hits a stroke inserts exactly one node with zero handles
\* into the hit path, right after the first node of the hit curve and at a
\* point of that curve, pushes exactly one snapshot (of the document with the
\* new node) in the same step and grabs the new node; a release that directly
\* follows the press pushes nothing, so the gesture added one entry.
C14_StrokeClickInsertsNode ==
    /\ [][(op'.name = "mouseDown" /\ op'.hit = "stroke") =>
            LET g == op'.target[1]
                p == op'.target[2]
                at == op'.target[3] + 2
                old == layer[g].children[p]
                new == layer'[g].children[p]
            IN /\ Len(layer') = Len(layer)
               /\ \A k \in 1..Len(layer) : k # g => layer'[k] = layer[k]
               /\ layer'[g].id = layer[g].id
               /\ Len(layer'[g].children) = Len(layer[g].children)
               /\ \A q \in 1..Len(layer[g].children) : q # p => layer'[g].children[q] = layer[g].children[q]
               /\ new.closed = old.closed
               /\ new.style = old.style
               /\ Len(new.segments) = Len(old.segments) + 1
               /\ \A j \in 1..Len(new.segments) :
                     j # at => new.segments[j] = old.segments[IF j < at THEN j ELSE j - 1]
               /\ new.segments[at].handleIn = <<0, 0>>
               /\ new.segments[at].handleOut = <<0, 0>>
               /\ new.segments[at].point \in StrokePoints(old.segments[at - 1].point,
                                                          old.segments[NextIndex(old, at - 1)].point)
               /\ op'.pushed
               /\ historyIndex' = historyIndex + 1
               /\ Len(history') = historyIndex + 2
               /\ SubSeq(history', 1, historyIndex + 1) = SubSeq(history, 1, historyIndex + 1)
               /\ history'[Len(history')] = exportJSON(layer'[getItem(layer', "outlines")])
               /\ segment' = [isNull |-> FALSE, gid |-> layer[g].id, path |-> p, index |-> at]
               /\ ~isDragging']_vars
    /\ [][(op.name = "mouseDown" /\ op.hit = "stroke" /\ op'.name = "mouseUp") =>
            ~op'.pushed /\ UNCHANGED <<layer, history, historyIndex>>]_vars

C14_Witness ==
    /\ op.name = "mouseUp"
    /\ op.afterPress = "stroke"
    /\ ~op.pushed
    /\ Len(history) = 2
    /\ historyIndex = 1
    /\ Len(DocPaths(layer)[1].segments) = 4

\* C15: a press that hits nothing grabs nothing and changes neither the
\* document nor the history, double-click or not; with no path in the project
\* every press hits nothing.
C15_MissChangesNothing ==
    /\ [][(op'.name = "mouseDown" /\ op'.hit = "none") =>
            /\ segment'.isNull
            /\ ~isDragging'
            /\ ~op'.pushed
            /\ UNCHANGED <<layer, history, historyIndex, notified>>]_vars
    /\ [][(op'.name = "mouseDown" /\ GroupIndexes = {}) => op'.hit = "none"]_vars

C15_Witness ==
    /\ op.name = "mouseDown"
    /\ op.hit = "none"
    /\ op.isDoubleClick
    /\ DocPaths(layer) # <<>>
    /\ Len(history) >= 1
    /\ segment.isNull

\* C16: a pointer move with a node grabbed adds event.delta to the anchor of
\* exactly that node when it is still in the project, leaves every other
\* node, path and item as it was, keeps the grab and pushes nothing; a pointer
\* move with nothing grabbed changes nothing.
C16_DragMovesGrabbedNode ==
    /\ [][(op'.name = "mouseDrag" /\ ~segment.isNull) =>
            LET o == OwnerIndex(layer, segment)
            IN /\ ~op'.pushed
               /\ UNCHANGED <<history, historyIndex, notified, segment>>
               /\ IF o = 0
                  THEN layer' = layer
                  ELSE layer' = [layer EXCEPT ![o].children[segment.path].segments[segment.index].point =
                                    <<@[1] + op'.delta[1], @[2] + op'.delta[2]>>]]_vars
    /\ [][(op'.name = "mouseDrag" /\ segment.isNull) =>
            UNCHANGED <<layer, history, historyIndex, notified, segment, isDragging>>]_vars

C16_Witness ==
    /\ op.name = "mouseDrag"
    /\ op.effective
    /\ op.delta = <<1, 0>>
    /\ isDragging
    /\ OwnerIndex(layer, segment) # 0
    /\ Len(layer[OwnerIndex(layer, segment)].children[segment.path].segments) >= 3
    /\ historyIndex = 0

\* C17: a release with a node grabbed leaves nothing grabbed; it pushes no
\* snapshot when the moves since the press sum to zero, and it pushes one when
\* they do not and the grabbed node is still in the document.
C17_ReleaseCommitsOnlyRealMoves ==
    [][(op'.name = "mouseUp" /\ ~segment.isNull) =>
          /\ segment'.isNull
          /\ ~isDragging'
          /\ (op.net = <<0, 0>> => ~op'.pushed)
          /\ ( ( /\ op.net # <<0, 0>>
                 /\ OwnerIndex(layer, segment) # 0
                 /\ OwnerIndex(layer, segment) = getItem(layer, "outlines") )
               => op'.pushed )]_vars

\* C18: every press stores its own time, later than the stored one; it is a
\* double-click exactly when there was a previous press and it came less than
\* DoubleClickMs before, whatever either press hit; the first press after the
\* mount is not a double-click.
C18_DoubleClickWindow ==
    [][op'.name = "mouseDown" =>
          /\ lastClickTime' > lastClickTime
          /\ lastClickTime' # 0
          /\ (op'.isDoubleClick <=>
                (lastClickTime # 0 /\ lastClickTime' - lastClickTime < DoubleClickMs))
          /\ (lastClickTime = 0 => ~op'.isDoubleClick)]_vars

\* Two presses on empty space (nothing was ever rendered), the second one a
\* double-click.
C18_Witness ==
    /\ op.name = "mouseDown"
    /\ op.isDoubleClick
    /\ op.hit = "none"
    /\ layer = <<>>
    /\ issued = 1
    /\ requests # {}
    /\ lastClickTime = MountTime + DoubleClickMs + DoubleClickMs - 1

\* C19: an undo or redo that takes effect leaves every history entry as it
\* was, and the document's paths afterwards have the geometry of the entry at
\* the new index and the style appState holds now, whatever style the entry
\* was saved with.
C19_RestoreAppliesCurrentStyle ==
    [][(op'.name \in {"undo", "redo"} /\ op'.effective) =>
          /\ history' = history
          /\ Len(DocPaths(layer')) = Len(history[historyIndex' + 1].children)
          /\ Geometry(DocPaths(layer')) = Geometry(history[historyIndex' + 1].children)
          /\ \A i \in 1..Len(DocPaths(layer')) : DocPaths(layer')[i].style = appState.style]_vars

C19_Witness ==
    /\ op.name \in {"undo", "redo"}
    /\ op.effective
    /\ DocPaths(layer) # <<>>
    /\ history[historyIndex + 1].children[1].style # appState.style
    /\ DocPaths(layer)[1].style = appState.style

\* C20: a change of a style attribute or of the showOriginal toggle changes
\* neither the history (entries, index, notified flags) nor any geometry:
\* the layer keeps its items, every item its paths, every path its nodes with
\* their positions and handles.
C20_StyleChangeKeepsGeometry ==
    [][op'.name \in {"changeStyle", "toggleShowOriginal"} =>
          /\ UNCHANGED <<history, historyIndex, notified>>
          /\ Len(layer') = Len(layer)
          /\ \A k \in 1..Len(layer) :
                /\ layer'[k].type = layer[k].type
                /\ layer'[k].id = layer[k].id
                /\ Len(layer'[k].children) = Len(layer[k].children)
                /\ Geometry(layer'[k].children) = Geometry(layer[k].children)]_vars

C20_Witness ==
    /\ op.name = "toggleShowOriginal"
    /\ ~appState.showOriginal
    /\ appState.style # DefaultStyle
    /\ Len(layer) = 2
    /\ layer[1].opacity = OpacityDimmed
    /\ DocPaths(layer) # <<>>
    /\ DocPaths(layer)[1].style = appState.style
    /\ Len(history) >= 2

\* C21: no pointer event removes a path: a press, move or release leaves the
\* layer with the same items and every item with the same number of paths,
\* also when a deletion leaves a path with two, one or no node; a deletion
\* lowers the node count of exactly one path, by exactly one.
C21_PointerEventsKeepPaths ==
    [][op'.name \in {"mouseDown", "mouseDrag", "mouseUp"} =>
          LET slots == UNION {{<<k, q>> : q \in 1..Len(layer[k].children)} : k \in 1..Len(layer)}
              count(lyr, kq) == Len(lyr[kq[1]].children[kq[2]].segments)
          IN /\ Len(layer') = Len(layer)
             /\ \A k \in 1..Len(layer) : Len(layer'[k].children) = Len(layer[k].children)
             /\ ((op'.name = "mouseDown" /\ op'.hit = "segment" /\ op'.isDoubleClick) =>
                    /\ Cardinality({kq \in slots : count(layer', kq) = count(layer, kq) - 1}) = 1
                    /\ Cardinality({kq \in slots : count(layer', kq) = count(layer, kq)}) = Cardinality(slots) - 1)]_vars

\* A path that lost all its nodes is still a path of the document.
C21_Witness ==
    /\ op.name = "mouseDown"
    /\ op.hit = "segment"
    /\ op.isDoubleClick
    /\ Len(DocPaths(layer)) = 1
    /\ Len(DocPaths(layer)[1].segments) = 0
    /\ Len(history) = 4

\* C22: a pushed snapshot is a value of its own: a step either leaves the
\* entries as they are, or empties the log (reset), or keeps every entry up to
\* the index and puts one new entry after them; moves of a node, style
\* changes, undos and redos leave every entry as it is, also after the
\* document was restored from one of them.
C22_SnapshotsImmutable ==
    /\ [][ \/ history' = history
           \/ history' = <<>>
           \/ /\ Len(history') = historyIndex + 2
              /\ SubSeq(history', 1, historyIndex + 1) = SubSeq(history, 1, historyIndex + 1) ]_vars
    /\ [][op'.name \in {"mouseDrag", "changeStyle", "toggleShowOriginal", "undo", "redo"}
            => history' = history]_vars

\* A node of a document restored by undo was moved: the document differs from
\* the entry it was restored from.
C22_Witness ==
    /\ op.name = "mouseDrag"
    /\ op.effective
    /\ OwnerIndex(layer, segment) # 0
    /\ OwnerIndex(layer, segment) = getItem(layer, "outlines")
    /\ Len(history) >= 2
    /\ historyIndex = 0
    /\ Geometry(DocPaths(layer)) # Geometry(history[1].children)

\* C23: when loadImage rejects inside process(), the request ends without an
\* outline result: the path data, the layer, the pending renders and the
\* history (entries, index, notified flags) are as before, no snapshot is
\* pushed, and the processing flag is cleared.
C23_DecodeFailureChangesNothing ==
    [][op'.name = "processFail" =>
          /\ UNCHANGED <<processedPathData, layer, pendingLoads, history, historyIndex, notified, appState>>
          /\ ~op'.pushed
          /\ ~isProcessing'
          /\ Cardinality(requests') = Cardinality(requests) - 1]_vars

\* The second request failed while the outline of the first is displayed.
C23_Witness ==
    /\ op.name = "processFail"
    /\ DocPaths(layer) # <<>>
    /\ processedPathData.request = 1
    /\ issued = 2
    /\ requests = {}

\* C24: a generation whose contour extraction gave no ring is committed like
\* any other: when its raster.onLoad runs, the document has zero paths and
\* the baseline pushed for it is a snapshot with zero paths.
C24_EmptyGenerationCommitted ==
    [][(op'.name = "rasterLoad" /\ op'.rings = <<>>) =>
          /\ DocPaths(layer') = <<>>
          /\ op'.pushed
          /\ history'[historyIndex' + 1].children = <<>>]_vars

\* C25: an export (aligned SVG, trimmed SVG, PDF) requested while the document
\* has no paths, or while the project holds no raster, writes no file.
C25_ExportWithoutContentWritesNothing ==
    [][(/\ op'.name \in {"exportSVGAligned", "exportSVGTrimmed", "exportSVG", "exportPDF"}
        /\ (DocPaths(layer) = <<>> \/ getItem(layer, "mainImage") = 0)) => ~call'.written]_vars

\* C26: the aligned SVG export always writes a file whose viewBox is
\* (0, 0, imageWidth, imageHeight), whatever the paths and the stroke width
\* are, also with nodes dragged outside the image.
C26_AlignedViewBoxIsImage ==
    [][op'.name \in {"exportSVGAligned", "exportSVG"} =>
          /\ call'.written
          /\ call'.viewBox = [x |-> 0, y |-> 0, width |-> Half * appState.imageWidth,
                              height |-> Half * appState.imageHeight]]_vars

\* An aligned export of a document with a node dragged out of the image,
\* beyond its right edge.
C26_Witness ==
    /\ op.name = "exportSVGAligned"
    /\ call.written
    /\ \E p \in 1..Len(DocPaths(layer)) : \E i \in 1..Len(DocPaths(layer)[p].segments) :
           DocPaths(layer)[p].segments[i].point[1] > appState.imageWidth

\* C27: the trimmed SVG export's viewBox is the stroke bounds of the
\* document's paths with x and y lowered by ceil(strokeWidth / 2) and width
\* and height raised by twice that.
C27_TrimmedViewBoxPadded ==
    [][(op'.name = "exportSVGTrimmed" /\ call'.written) =>
          LET b == strokeBounds(layer[getItem(layer, "outlines")])
              w == appState.style.strokeWidth
              ceil == CHOOSE c \in 0..w : 2 * c >= w /\ 2 * (c - 1) < w
          IN /\ call'.viewBox.x = b.x - Half * ceil
             /\ call'.viewBox.y = b.y - Half * ceil
             /\ call'.viewBox.width = b.width + 2 * Half * ceil
             /\ call'.viewBox.height = b.height + 2 * Half * ceil]_vars

\* A trimmed export of two paths under an odd stroke width.
C27_Witness ==
    /\ op.name = "exportSVGTrimmed"
    /\ call.written
    /\ Len(DocPaths(layer)) = 2
    /\ appState.style.strokeWidth % 2 = 1
    /\ call.viewBox.width > 0

\* C28: when doc.addImage throws during the PDF export the error is logged,
\* every path of the document that has a curve is still stroked, in order,
\* and the PDF is saved.
C28_PdfSurvivesImageFailure ==
    [][(op'.name = "exportPDF" /\ call'.logged) =>
          /\ ~call'.imageAdded
          /\ call'.written
          /\ call'.file = "contour-crafted-export.pdf"
          /\ Len(call'.strokes) = Cardinality({p \in 1..Len(DocPaths(layer)) : CountCurves(DocPaths(layer)[p]) > 0})
          /\ \A p \in 1..Len(DocPaths(layer)) :
                 CountCurves(DocPaths(layer)[p]) > 0 => \E k \in 1..Len(call'.strokes) : call'.strokes[k] = DocPaths(layer)[p]]_vars

\* A PDF export of a displayed outline whose addImage threw.
C28_Witness ==
    /\ op.name = "exportPDF"
    /\ call.logged
    /\ Len(call.strokes) >= 1
    /\ Len(call.strokes) = Len(DocPaths(layer))

\* C29: a generation with blur radius R >= 0 blurs with radius R when R >= 1
\* and with radius 1 when R = 0: it never leaves the buffer through the
\* radius <= 0 return.
C29_EffectiveRadius ==
    call.name = "generateOutlineCoordinates" =>
        /\ ~call.passedThrough
        /\ call.after = blurAlphaChannel(call.before, call.width, call.height,
                                         IF call.radius >= 1 THEN call.radius ELSE 1).data

\* A generation with R = 0 whose result differs from its input.
C29_Witness ==
    /\ call.name = "generateOutlineCoordinates"
    /\ call.radius = 0
    /\ call.after # call.before
    /\ call.width >= 2
    /\ call.height >= 2

\* C30 as stated: the blur is a horizontal pass followed by a vertical pass,
\* each replacing a value by the mean of its 2r+1 edge-clamped window, so an
\* output value times (2r+1)^2 is the sum of the clamped (2r+1) x (2r+1)
\* window of the input.
C30_BlurIsExactMean ==
    (call.name = "blurAlphaChannel" /\ call.radius >= 1) =>
        LET r == call.radius
            w == call.width
            h == call.height
            edge(i, n) == IF i < 0 THEN 0 ELSE IF i > n - 1 THEN n - 1 ELSE i
            row(x, y) == SumOver([k \in (0 - r)..r |-> call.before[y * w + edge(x + k, w) + 1]], 0 - r, r)
            box(x, y) == SumOver([k \in (0 - r)..r |-> row(x, edge(y + k, h))], 0 - r, r)
        IN \A i \in 1..(w * h) :
               call.after[i] * (2 * r + 1) * (2 * r + 1) = box((i - 1) % w, (i - 1) \div w)

\* C30: the blur is a horizontal pass followed by a vertical pass; each pass
\* replaces a value by the mean of its 2r+1 window values at i-r..i+r, indices
\* outside the field clamped to the nearest edge, the mean cut to a whole
\* number when stored; every output value is within 0..255 and a uniform
\* field is unchanged.
C30_BlurIsTruncatedMean ==
    (call.name = "blurAlphaChannel" /\ call.radius >= 1) =>
        LET r == call.radius
            w == call.width
            h == call.height
            edge(i, n) == IF i < 0 THEN 0 ELSE IF i > n - 1 THEN n - 1 ELSE i
            first == [i \in 1..(w * h) |->
                         SumOver([k \in (0 - r)..r |-> call.before[((i - 1) \div w) * w + edge(((i - 1) % w) + k, w) + 1]],
                                 0 - r, r) \div (2 * r + 1)]
            second == [i \in 1..(w * h) |->
                          SumOver([k \in (0 - r)..r |-> first[edge(((i - 1) \div w) + k, h) * w + ((i - 1) % w) + 1]],
                                  0 - r, r) \div (2 * r + 1)]
        IN /\ call.after = second
           /\ \A i \in 1..(w * h) : call.after[i] \in 0..255
           /\ (\A i \in 1..(w * h) : call.before[i] = call.before[1]) => call.after = call.before
           /\ ~call.passedThrough

\* One opaque pixel in the corner of a field of at least 2 x 2, radius 1: the
\* corner becomes 170 after the horizontal pass and 113 after the vertical one.
C30_Witness ==
    /\ call.name = "blurAlphaChannel"
    /\ call.radius = 1
    /\ call.width >= 2
    /\ call.height >= 2
    /\ call.before[1] = 255
    /\ \A i \in 2..(call.width * call.height) : call.before[i] = 0
    /\ call.after[1] = 113

C32_ToleranceZeroIsPolyline ==
    [][op'.name = "rasterLoad" =>
          \A l \in pendingLoads \ pendingLoads' :
              l.simplification = 0 =>
                  LET paths == layer'[Len(layer')].children
                  IN /\ layer'[Len(layer')].type = "Group"
                     /\ Len(paths) = Len(l.rings)
                     /\ \A r \in 1..Len(l.rings) :
                            /\ Len(paths[r].segments) = Len(l.rings[r])
                            /\ \A i \in 1..Len(l.rings[r]) :
                                   /\ paths[r].segments[i].point = l.rings[r][i]
                                   /\ paths[r].segments[i].handleIn = <<0, 0>>
                                   /\ paths[r].segments[i].handleOut = <<0, 0>>]_vars

\* The outline re-rendered after the tolerance was set to 0: four nodes for
\* the four points of the ring, no handles.
C32_Witness ==
    /\ op.name = "rasterLoad"
    /\ op.cause = "changeSimplification"
    /\ op.rings # <<>>
    /\ appState.simplification = 0
    /\ Len(DocPaths(layer)) = Len(op.rings)
    /\ Len(DocPaths(layer)[1].segments) = Len(op.rings[1])
    /\ DocPaths(layer)[1].segments[1].handleOut = <<0, 0>>

\* C33: whenever no drag is in progress (button up, isDragging false) and no
\* generation or render is pending, the geometry of the document's paths, at
\* snapshot precision, is the geometry of the entry at the history index; with
\* an empty history the document has no paths.
C33_DocumentIsEntryAtCursor ==
    (requests = {} /\ pendingLoads = {} /\ ~isDragging /\ mouse = "up") =>
        IF historyIndex = 0 - 1
        THEN DocPaths(layer) = <<>>
        ELSE /\ getItem(layer, "outlines") # 0
             /\ Geometry(exportJSON(layer[getItem(layer, "outlines")]).children)
                    = Geometry(history[historyIndex + 1].children)

\* C34: while a node is grabbed it belongs to a path of the current document
\* (the 'outlines' item getItem finds), whatever undo, redo or render runs
\* in between; so a pointer move never changes a node outside the document
\* and a release never pushes a snapshot equal to the entry at the index.
C34_GrabbedNodeInDocument ==
    /\ [](~segment.isNull =>
             /\ OwnerIndex(layer, segment) # 0
             /\ OwnerIndex(layer, segment) = getItem(layer, "outlines"))
    /\ [][(op'.name = "mouseDrag" /\ op'.effective) => OwnerIndex(layer, segment) # 0]_vars
    /\ [][(op'.name = "mouseUp" /\ op'.pushed /\ historyIndex >= 0) =>
              history'[historyIndex' + 1] # history[historyIndex + 1]]_vars

\* C35: a change of the simplification tolerance issues no request and leaves
\* the history alone; when its render is committed the document's paths are
\* the ones built from the rings of that render (no earlier node edit is
\* left) and exactly one snapshot is appended after the entries up to the
\* index, which moves up by one.
C35_SimplificationRerenders ==
    /\ [][op'.name = "changeSimplification" =>
              UNCHANGED <<history, historyIndex, processedPathData, requests>>]_vars
    /\ [][(op'.name = "rasterLoad" /\ op'.cause = "changeSimplification") =>
              /\ op'.pushed
              /\ Len(history') = historyIndex + 2
              /\ SubSeq(history', 1, historyIndex + 1) = SubSeq(history, 1, historyIndex + 1)
              /\ historyIndex' = historyIndex + 1
              /\ \A l \in pendingLoads \ pendingLoads' :
                     Geometry(DocPaths(layer')) =
                         Geometry([i \in 1..Len(l.rings) |-> NewPath(l.rings[i], l.simplification, l.style)])]_vars

\* C36: isProcessing is true while at least one process() call is in flight
\* and false once none is left.
C36_ProcessingFlagTracksRequests ==
    /\ requests # {} => isProcessing
    /\ requests = {} => ~isProcessing

\* C37: the pair last handed to onHistoryChange is
\* (historyIndex > 0, historyIndex < Len(history) - 1) in every state, so
\* after each commit, undo, redo and reset the availability App shows is the
\* one of the history store.
C37_NotifiedMatchesHistory ==
    /\ notified.canUndo = (historyIndex > 0)
    /\ notified.canRedo = (historyIndex < Len(history) - 1)

\* After an undo in the middle of three entries both undo and redo are shown.
C37_Witness ==
    /\ op.name = "undo"
    /\ op.effective
    /\ notified.canUndo
    /\ notified.canRedo
    /\ Len(history) >= 3
    /\ historyIndex = 1

\* C38: a press classified as a double-click that hits a stroke does what a
\* single click on that stroke does: no node is removed, one node with zero
\* handles is inserted after the first node of the hit curve, one snapshot is
\* pushed and the new node is grabbed.
C38_DoubleClickOnStrokeInserts ==
    [][(op'.name = "mouseDown" /\ op'.isDoubleClick /\ op'.hit = "stroke") =>
          LET g == op'.target[1]
              p == op'.target[2]
              at == op'.target[3] + 2
              old == layer[g].children[p].segments
              new == layer'[g].children[p].segments
          IN /\ Len(new) = Len(old) + 1
             /\ \A j \in 1..Len(old) : new[IF j < at THEN j ELSE j + 1] = old[j]
             /\ new[at].handleIn = <<0, 0>> /\ new[at].handleOut = <<0, 0>>
             /\ [layer' EXCEPT ![g].children[p].segments = old] = layer
             /\ op'.pushed
             /\ Len(history') = historyIndex + 2
             /\ historyIndex' = historyIndex + 1
             /\ ~segment'.isNull
             /\ segment'.gid = layer[g].id /\ segment'.path = p /\ segment'.index = at
             /\ ~isDragging']_vars

\* A second press within the double-click window that landed on a stroke and
\* inserted a node.
C38_Witness ==
    /\ op.name = "mouseDown"
    /\ op.isDoubleClick
    /\ op.hit = "stroke"
    /\ op.pushed
    /\ ~segment.isNull
    /\ Len(history) >= 2

\* C39: in every state of a mockup session each layer's totalCount is the
\* number of instances that reference it and every instance references a
\* listed layer, selectedInstanceId is null or the id of an instance, and
\* notPlacedInstanceIds holds ids of instances only; a layer whose total is
\* set to 0, or whose last instance is deleted, leaves the list with all
\* its instances.
C39_MockupStateConsistent ==
    /\ [](/\ \A i \in 1..Len(mockupState.layers) :
               mockupState.layers[i].totalCount
                  = Cardinality({k \in 1..Len(mockupState.instances) :
                                    mockupState.instances[k].layerId = mockupState.layers[i].id})
          /\ \A k \in 1..Len(mockupState.instances) :
               \E i \in 1..Len(mockupState.layers) :
                  mockupState.layers[i].id = mockupState.instances[k].layerId
          /\ \/ mockupState.selectedInstanceId = 0
             \/ \E k \in 1..Len(mockupState.instances) :
                   mockupState.instances[k].id = mockupState.selectedInstanceId
          /\ \A n \in 1..Len(mockupState.notPlacedInstanceIds) :
               \E k \in 1..Len(mockupState.instances) :
                  mockupState.instances[k].id = mockupState.notPlacedInstanceIds[n])
    /\ [][(\/ call'.name = "setLayerTotalCount" /\ call'.total = 0
           \/ call'.name = "deleteSelectedInstance" /\ call'.layerId # 0 /\ call'.total = 1) =>
             /\ \A i \in 1..Len(mockupState'.layers) : mockupState'.layers[i].id # call'.layerId
             /\ \A k \in 1..Len(mockupState'.instances) :
                   mockupState'.instances[k].layerId # call'.layerId
             /\ \A i \in 1..Len(mockupState.layers) :
                   mockupState.layers[i].id # call'.layerId =>
                      \E j \in 1..Len(mockupState'.layers) : mockupState'.layers[j] = mockupState.layers[i]]_vars

\* The selected instance of a layer raised to several instances was
\* deleted: the layer stays, with one instance less.
C39_Witness ==
    /\ call.name = "deleteSelectedInstance"
    /\ call.layerId # 0
    /\ call.total >= 2
    /\ \E i \in 1..Len(mockupState.layers) :
          /\ mockupState.layers[i].id = call.layerId
          /\ mockupState.layers[i].totalCount = call.total - 1

\* C40: packWithinBoundary puts every rectangle in exactly one of placed and
\* notPlaced; the placed rectangles, in their chosen orientation, lie inside
\* the boundary and do not overlap one another; a rectangle is rotated only
\* when allowRotate90 is set; a rectangle is notPlaced only if, in no allowed
\* orientation, it fits a free rectangle left when its turn came.
C40_PackingIsSound ==
    call.name = "packWithinBoundary" =>
        LET n == Len(call.rects)
            placed == call.placed
            notPlaced == call.notPlaced
            RectOf(pl) == CHOOSE r \in {call.rects[k] : k \in 1..n} : r.id = pl.id
            PlacedW(pl) == IF pl.rotationDeg = 90 THEN RectOf(pl).h ELSE RectOf(pl).w
            PlacedH(pl) == IF pl.rotationDeg = 90 THEN RectOf(pl).w ELSE RectOf(pl).h
        IN /\ Len(placed) + Len(notPlaced) = n
           /\ \A k \in 1..n :
                 Cardinality({i \in 1..Len(placed) : placed[i].id = call.rects[k].id})
                 + Cardinality({i \in 1..Len(notPlaced) : notPlaced[i] = call.rects[k].id}) = 1
           /\ \A i \in 1..Len(placed) :
                 /\ placed[i].x >= 0
                 /\ placed[i].y >= 0
                 /\ placed[i].x + PlacedW(placed[i]) <= call.boundaryWidth
                 /\ placed[i].y + PlacedH(placed[i]) <= call.boundaryHeight
                 /\ placed[i].rotationDeg \in {0, 90}
                 /\ placed[i].rotationDeg = 90 => call.allowRotate90
           /\ \A i, j \in 1..Len(placed) :
                 i < j =>
                    \/ placed[i].x + PlacedW(placed[i]) <= placed[j].x
                    \/ placed[j].x + PlacedW(placed[j]) <= placed[i].x
                    \/ placed[i].y + PlacedH(placed[i]) <= placed[j].y
                    \/ placed[j].y + PlacedH(placed[j]) <= placed[i].y
           /\ \A i \in 1..Len(notPlaced) :
                 \A k \in 1..n, s \in 1..Len(call.seen) :
                    (call.rects[k].id = notPlaced[i] /\ call.seen[s].id = notPlaced[i]) =>
                       \A f \in 1..Len(call.seen[s].free) :
                          LET fr == call.seen[s].free[f]
                              r == call.rects[k]
                          IN /\ ~(r.w <= fr.w /\ r.h <= fr.h)
                             /\ call.allowRotate90 => ~(r.h <= fr.w /\ r.w <= fr.h)

\* A layout with rotation allowed that placed at least three rectangles, one
\* of them rotated, and left one out.
C40_Witness ==
    /\ call.name = "packWithinBoundary"
    /\ call.allowRotate90
    /\ Len(call.placed) >= 3
    /\ Len(call.notPlaced) >= 1
    /\ \E i \in 1..Len(call.placed) : call.placed[i].rotationDeg = 90

====
